---- MODULE Spec2Model ----
(***************************************************************************)
(* Model of the scalping engine (src/lib/scalper.js), the order client     *)
(* (src/unnamed/part_004) and the server loops (src/test-proxy.js).        *)
(*                                                                         *)
(* Money is in cents, prices are in cents per share.  Every `await` of the *)
(* source is a point where another handler may run, so each handler is cut *)
(* into one action per stretch of synchronous code.  An order request      *)
(* reaches the venue in the step that sends it; the wait for its answer    *)
(* and the 2 s sleep before verifyOrder are one point of interleaving.     *)
(***************************************************************************)
EXTENDS Integers, Sequences, FiniteSets, TLC

VARIABLES
    running,        \* Scalper.running
    live,           \* _liveTading && _orderClient.ready (fixed at boot)
    markets,        \* timeframes of the BTC markets in Scalper.markets
    ticking,        \* Scalper._ticking
    entryLock,      \* Scalper._entryLock
    bankroll,       \* Scalper.bankroll
    positions,      \* Scalper.positions
    history,        \* Scalper.history (newest first)
    orders,         \* orders at the venue, with what the client was told
    pc,             \* where each handler invocation stands
    loc,            \* the locals of each handler invocation
    failures,       \* Scalper._executionStats.failures
    cooling,        \* _lastEntryTime is set and less than ENTRY_LOCK_MS ago
    dailyPnl        \* Scalper._dailyPnl

vars == <<running, live, markets, ticking, entryLock, bankroll, positions,
          history, orders, pc, loc, failures, cooling, dailyPnl>>

----------------------------------------------------------------------------
(* Bounds of the model *)

MaxOrders == 2
MaxFailures == 2

----------------------------------------------------------------------------
(* Program constants *)

PROBE_SIZE == 100
STARTING_BANKROLL == 825
MAX_POSITIONS == 1
MAX_SINGLE_BET == 1000
RESET_BANKROLL == 400
DAILY_LOSS_LIMIT == 600
HEALTH_WINDOW == 30
HEALTH_MIN_WINRATE == 45
SLIPPAGE_PENALTY == 2

(* Environment inputs, drawn from small sets.  MarketSets: what a refresh  *)
(* can list (BTC 1h and 1d, sorted 1h first).                              *)
EntryPrices == {50}
WalletVals == {0, 600}
PoolVals == {0, 600}
ManualBets == {400}
RawBets == {PROBE_SIZE}
MarketSets == {{"1h", "1d"}}

Ticks == {"fast", "full"}
Handlers == Ticks \cup {"manual"}

NoPos == [oid |-> 0, tf |-> "none", cost |-> 0, entry |-> 0, size |-> 0]

Min(a, b) == IF a <= b THEN a ELSE b
Max(a, b) == IF a >= b THEN a ELSE b

RemoveAt(s, i) == SubSeq(s, 1, i - 1) \o SubSeq(s, i + 1, Len(s))
InsertAt(s, i, x) ==
    LET k == Min(i, Len(s) + 1)
    IN SubSeq(s, 1, k - 1) \o <<x>> \o SubSeq(s, k, Len(s))

(* The exit reasons _managePositions can select for a long-timeframe       *)
(* position, by class: a resolution, a forced exit, an ordinary exit.      *)
ExitReasons == {"WIN-RESOLVE", "LIQ-FORCE", "PROFIT"}
Decisions == ExitReasons \cup {"HOLD"}

isForced(reason) ==
    reason \in {"LIQ-FORCE", "STOP", "WIN-RESOLVE", "LOSS-RESOLVE"}

isResolution(reason) == reason \in {"WIN-RESOLVE", "LOSS-RESOLVE"}

(* c.exitPrice: 0.95 / 0.05 at resolution, the token price cp otherwise *)
ExitPrice(reason) ==
    CASE reason = "WIN-RESOLVE" -> 95
      [] reason = "LOSS-RESOLVE" -> 5
      [] reason = "LIQ-FORCE" -> 20
      [] OTHER -> 75

(* size = betSize / realEntryPrice, in hundredths of a share *)
Shares(bet, entryPrice) == (bet * 100) \div entryPrice

(* pnl = (realExitPrice - entryPrice) * pos.size, cut to whole cents *)
Pnl(exitPrice, entryPrice, size) ==
    LET num == (exitPrice - entryPrice) * size
    IN IF num >= 0 THEN num \div 100 ELSE -((-num) \div 100)

RoundDiv(a, b) == (2 * a + b) \div (2 * b)

----------------------------------------------------------------------------
(* Locals of a handler invocation *)

NoLoc == [ord |-> 0, bet |-> 0, tf |-> "none", pos |-> NoPos, reason |-> "none",
          index |-> 0, toClose |-> <<>>, todo |-> <<>>, path |-> "none"]

Idle(h) == pc[h] = "idle"

(* JavaScript runs a handler up to its next await on I/O before any timer  *)
(* callback, request handler or other continuation runs.  These are the    *)
(* places where a handler waits: between invocations, on getPoolBalance,   *)
(* on the price fetches of tick(), on an order's placement, verification   *)
(* or cancellation, and on save().  fastTick() has no await before         *)
(* _managePositions.                                                       *)
AtAwait(h) ==
    \/ pc[h] \in {"idle", "sync", "sellPlaced", "sellCancel", "buyPlaced",
                  "buyCancel", "finish"}
    \/ h = "full" /\ pc[h] = "body"

OthersAtAwait(h) == \A g \in Handlers \ {h} : AtAwait(g)
AllAtAwait == \A g \in Handlers : AtAwait(g)

Init ==
    /\ running = FALSE
    /\ live \in BOOLEAN
    /\ markets = {}
    /\ ticking = FALSE
    /\ entryLock = FALSE
    /\ bankroll = STARTING_BANKROLL
    /\ positions = <<>>
    /\ history = <<>>
    /\ orders = <<>>
    /\ pc = [h \in Handlers |-> "idle"]
    /\ loc = [h \in Handlers |-> NoLoc]
    /\ failures = 0
    /\ cooling = FALSE
    /\ dailyPnl = 0

(* Boot: Scalper.init() with no saved state sets running; with a ready     *)
(* order client the server then sets bankroll to the wallet balance when   *)
(* that is positive and no position was loaded (test-proxy.js 120-126)     *)
BootBankroll(bal) ==
    IF live /\ bal > 0 /\ Len(positions) = 0 THEN bal ELSE bankroll

ScalperInit ==
    /\ ~running
    /\ AllAtAwait
    /\ running' = TRUE
    /\ \E bal \in WalletVals : bankroll' = BootBankroll(bal)
    /\ UNCHANGED <<live, markets, ticking, entryLock, positions, history,
                   orders, pc, loc>>
    /\ UNCHANGED <<failures, cooling, dailyPnl>>

(* refreshMarkets(): this.markets is replaced by what the venue lists *)
RefreshMarkets ==
    /\ running
    /\ AllAtAwait
    /\ \E ms \in MarketSets : markets' = ms
    /\ UNCHANGED <<running, live, ticking, entryLock, bankroll, positions, history, orders, pc, loc>>
    /\ UNCHANGED <<failures, cooling, dailyPnl>>

(* POST /api/reset and the dashboard's RESET message *)
Reset ==
    /\ running
    /\ AllAtAwait
    /\ positions' = <<>>
    /\ history' = <<>>
    /\ bankroll' = RESET_BANKROLL
    /\ dailyPnl' = 0
    /\ failures' = 0
    /\ UNCHANGED <<running, live, markets, ticking, entryLock, orders, pc, loc,
                   cooling>>

----------------------------------------------------------------------------
(* The two loops *)

(* the guard left out *)
TickGuard_Open == TRUE

(* tick()/fastTick(): if (this._ticking) return *)
TickGuard == ~ticking

(* tick() lines 1363-1374: with no open position bankroll is synced to the *)
(* pool balance when that is positive, else to the wallet balance when     *)
(* that is positive.  wallet is _walletBalance, whatever the last 60 s     *)
(* refresh of startLoops stored.                                           *)
SyncedBankroll(pool, wallet) ==
    IF pool > 0 THEN pool
    ELSE IF wallet > 0 THEN wallet ELSE bankroll

(* tick() up to its first await *)
FullTickStart ==
    /\ Idle("full")
    /\ AllAtAwait
    /\ running
    /\ IF ~TickGuard
       THEN \* skipped, not queued: return
            UNCHANGED <<ticking, bankroll, pc>>
       ELSE IF markets = {}
       THEN \* _ticking = true; "No markets"; _ticking = false; return
            /\ pc' = [pc EXCEPT !["full"] = "idle"]
            /\ UNCHANGED <<ticking, bankroll>>
       ELSE /\ ticking' = TRUE
            /\ IF Len(positions) = 0
               THEN \/ \* supa.isConnected(): await getPoolBalance()
                       /\ pc' = [pc EXCEPT !["full"] = "sync"]
                       /\ UNCHANGED bankroll
                    \/ \* not connected: wallet balance only
                       /\ \E wallet \in WalletVals :
                             bankroll' = SyncedBankroll(0, wallet)
                       /\ pc' = [pc EXCEPT !["full"] = "body"]
               ELSE /\ pc' = [pc EXCEPT !["full"] = "body"]
                    /\ UNCHANGED bankroll
    /\ UNCHANGED <<running, live, markets, entryLock, positions,
                   history, orders, loc>>
    /\ UNCHANGED <<failures, cooling, dailyPnl>>

(* getPoolBalance() answered *)
PoolSync ==
    /\ pc["full"] = "sync"
    /\ OthersAtAwait("full")
    /\ \E pool \in PoolVals, wallet \in WalletVals :
          bankroll' = SyncedBankroll(pool, wallet)
    /\ pc' = [pc EXCEPT !["full"] = "body"]
    /\ UNCHANGED <<running, live, markets, ticking, entryLock, positions, history, orders, loc>>
    /\ UNCHANGED <<failures, cooling, dailyPnl>>

FastTickStart ==
    /\ Idle("fast")
    /\ AllAtAwait
    /\ running /\ markets # {}
    /\ IF ~TickGuard
       THEN \* skipped, not queued: return
            UNCHANGED <<ticking, pc>>
       ELSE /\ ticking' = TRUE
            /\ pc' = [pc EXCEPT !["fast"] = "body"]
    /\ UNCHANGED <<running, live, markets, entryLock, bankroll, positions, history, orders, loc>>
    /\ UNCHANGED <<failures, cooling, dailyPnl>>

(* How an invocation of tick t ends.  tick() ends through its finally      *)
(* block; fastTick() has none: it releases _ticking in its last statement  *)
(* only, so a throw or its early return leaves the flag set.               *)
ReleasedOnReturn(t) == IF t = "full" THEN FALSE ELSE ticking
ReleasedOnThrow(t) == IF t = "full" THEN FALSE ELSE ticking

(* An exception inside the tick body (before _managePositions has spliced  *)
(* anything): tick() catches and logs it, fastTick() lets it reach the     *)
(* try/catch of the setInterval callback in startLoops.                    *)
Throw(t) ==
    /\ pc[t] = "body"
    /\ OthersAtAwait(t)
    /\ ticking' = ReleasedOnThrow(t)
    /\ pc' = [pc EXCEPT ![t] = "idle"]
    /\ loc' = [loc EXCEPT ![t] = NoLoc]
    /\ UNCHANGED <<running, live, markets, entryLock, bankroll, positions, history, orders>>
    /\ UNCHANGED <<failures, cooling, dailyPnl>>

(* if (Object.keys(prices).length === 0) return *)
NoPrices(t) ==
    /\ pc[t] = "body"
    /\ OthersAtAwait(t)
    /\ ticking' = ReleasedOnReturn(t)
    /\ pc' = [pc EXCEPT ![t] = "idle"]
    /\ loc' = [loc EXCEPT ![t] = NoLoc]
    /\ UNCHANGED <<running, live, markets, entryLock, bankroll, positions, history, orders>>
    /\ UNCHANGED <<failures, cooling, dailyPnl>>

----------------------------------------------------------------------------
(* The order client and the venue *)

(* An order as the venue holds it (st) and as the engine was told:         *)
(* ver is what verifyOrder answered, cancelled whether cancelOrder was     *)
(* called, tracked whether a position was pushed for it.                   *)
NewOrder(kind, st) ==
    [kind |-> kind, st |-> st, ver |-> "none", cancelled |-> FALSE,
     tracked |-> FALSE]

CanPlace == Len(orders) < MaxOrders

(* A resting (GTC) order is matched by a counterparty *)
VenueFill(o) ==
    /\ o \in 1..Len(orders)
    /\ AllAtAwait
    /\ orders[o].st = "live"
    /\ orders' = [orders EXCEPT ![o].st = "matched"]
    /\ UNCHANGED <<running, live, markets, ticking, entryLock, bankroll,
                   positions, history, pc, loc>>
    /\ UNCHANGED <<failures, cooling, dailyPnl>>

(* the handler goes on without calling cancelOrder *)
CancelPc_Skipped(kind) == IF kind = "buy" THEN "idle" ELSE "close"

(* if (!verify.matched) { ...; await cancelOrder(orderId); ... }: where the *)
(* handler waits after an unmatched verification                           *)
CancelPc(kind) == IF kind = "buy" THEN "buyCancel" ELSE "sellCancel"

(* verifyOrder: matched iff status === "MATCHED" && size_matched > 0 *)
VerifyMatched(o) == orders[o].st = "matched"

(* cancelOrder: the venue cancels a live order, or the call fails *)
CancelResult(o, ok) ==
    IF orders[o].st = "live" /\ ok THEN "cancelled" ELSE orders[o].st

----------------------------------------------------------------------------
(* Counters and gates *)

(* this._executionStats.failures++, k times in one step *)
Failed(k) ==
    /\ failures + k <= MaxFailures
    /\ failures' = failures + k

(* _checkModelHealth(): the win rate of the newest HEALTH_WINDOW trades *)
CheckModelHealth ==
    \/ Len(history) < HEALTH_WINDOW
    \/ Cardinality({i \in 1..HEALTH_WINDOW : history[i].pnl >= 0}) * 100
          >= HEALTH_MIN_WINRATE * HEALTH_WINDOW

(* this._dailyPnl <= -DAILY_LOSS_LIMIT *)
DailyLossHit == dailyPnl <= -DAILY_LOSS_LIMIT

(* ENTRY_LOCK_MS have passed since _lastEntryTime *)
CooldownElapses ==
    /\ cooling
    /\ AllAtAwait
    /\ cooling' = FALSE
    /\ UNCHANGED <<running, live, markets, ticking, entryLock, bankroll,
                   positions, history, orders, pc, loc, failures, dailyPnl>>

----------------------------------------------------------------------------
(* _managePositions *)

RECURSIVE CloseList(_, _)
CloseList(d, n) ==
    IF n = 0 THEN <<>>
    ELSE (IF d[n] # "HOLD" THEN <<[index |-> n - 1, reason |-> d[n]]>> ELSE <<>>)
         \o CloseList(d, n - 1)

(* The rule loop: each position is held or queued for one exit; toClose is *)
(* in descending index order.                                              *)
Manage(t) ==
    /\ pc[t] = "body"
    /\ OthersAtAwait(t)
    /\ \E d \in [1..Len(positions) -> Decisions] :
          loc' = [loc EXCEPT ![t].toClose = CloseList(d, Len(positions))]
    /\ pc' = [pc EXCEPT ![t] = "close"]
    /\ UNCHANGED <<running, live, markets, ticking, entryLock, bankroll,
                   positions, history, orders>>
    /\ UNCHANGED <<failures, cooling, dailyPnl>>

CostBasis(pos) == IF pos.cost = 0 THEN PROBE_SIZE ELSE pos.cost

(* lines 1968-1993: the position is settled and moved to history *)
Settle(pos, reason, filled) ==
    LET pnl == Pnl(ExitPrice(reason), pos.entry, pos.size)
    IN /\ bankroll' = bankroll + CostBasis(pos) + pnl
       /\ dailyPnl' = dailyPnl + pnl
       /\ history' = <<[oid |-> pos.oid, reason |-> reason, cost |-> pos.cost,
                        pnl |-> pnl, filled |-> filled]>> \o history

(* line 1960: if (!exitSim && !isForced) the position is put back *)
PutsBack(filled, reason) == ~filled /\ ~isForced(reason)

(* the position is settled and stays in the open set as well *)
ExitOutcome_KeepsPosition(base, pos, index, reason, filled) ==
    /\ positions' = InsertAt(base, index + 1, pos)
    /\ Settle(pos, reason, filled)
    /\ UNCHANGED failures

(* What follows _simulateExit's answer, for the position held in `pos`.   *)
(* A null answer was counted once inside _simulateExit (lines 1010, 1027,  *)
(* 1040) and is counted again when the position is put back (line 1963).   *)
ExitOutcome(base, pos, index, reason, filled) ==
    IF PutsBack(filled, reason)
    THEN /\ positions' = InsertAt(base, index + 1, pos)
         /\ Failed(2)
         /\ UNCHANGED <<bankroll, history, dailyPnl>>
    ELSE /\ positions' = base
         /\ Settle(pos, reason, filled)
         /\ Failed(IF filled THEN 0 ELSE 1)

ClearExit(l) == [l EXCEPT !.pos = NoPos, !.ord = 0, !.reason = "none", !.index = 0]

(* The close loop: splice the position out, then _simulateExit.  A stale   *)
(* index yields undefined and `pos.tokenId` throws.  Live: sellShares      *)
(* places the order (FOK when urgent: filled at once or killed), or        *)
(* placement fails and _simulateExit returns null.                         *)
CloseNext(t) ==
    /\ pc[t] = "close"
    /\ OthersAtAwait(t)
    /\ IF loc[t].toClose = <<>>
       THEN /\ pc' = [pc EXCEPT ![t] = "scan"]
            /\ UNCHANGED <<ticking, positions, bankroll, history, orders, loc,
                           failures, dailyPnl>>
       ELSE LET c == Head(loc[t].toClose)
                rest == Tail(loc[t].toClose)
            IN IF c.index + 1 > Len(positions)
               THEN /\ ticking' = ReleasedOnThrow(t)
                    /\ pc' = [pc EXCEPT ![t] = "idle"]
                    /\ loc' = [loc EXCEPT ![t] = NoLoc]
                    /\ UNCHANGED <<positions, bankroll, history, orders,
                                   failures, dailyPnl>>
               ELSE LET pos == positions[c.index + 1]
                        base == RemoveAt(positions, c.index + 1)
                    IN IF live
                       THEN \/ /\ CanPlace
                               /\ positions' = base
                               /\ \E st \in (IF isForced(c.reason) THEN {"matched", "killed"}
                                                   ELSE {"live", "matched"}) :
                                    orders' = Append(orders, NewOrder("sell", st))
                               /\ loc' = [loc EXCEPT ![t].toClose = rest,
                                                  ![t].pos = pos,
                                                  ![t].index = c.index,
                                                  ![t].ord = Len(orders) + 1,
                                                  ![t].reason = c.reason]
                               /\ pc' = [pc EXCEPT ![t] = "sellPlaced"]
                               /\ UNCHANGED <<ticking, bankroll, history,
                                              failures, dailyPnl>>
                            \/ /\ ExitOutcome(base, pos, c.index, c.reason, FALSE)
                               /\ loc' = [loc EXCEPT ![t].toClose = rest]
                               /\ pc' = [pc EXCEPT ![t] = "close"]
                               /\ UNCHANGED <<ticking, orders>>
                       ELSE \* paper: no bids and not forced -> null, else a fill
                            /\ \E fill \in BOOLEAN :
                                 /\ (~fill => ~isForced(c.reason))
                                 /\ ExitOutcome(base, pos, c.index, c.reason, fill)
                            /\ loc' = [loc EXCEPT ![t].toClose = rest]
                            /\ pc' = [pc EXCEPT ![t] = "close"]
                            /\ UNCHANGED <<ticking, orders>>
    /\ UNCHANGED <<running, live, markets, entryLock, cooling>>

(* after the 2 s wait: verifyOrder *)
SellVerify(t) ==
    /\ pc[t] = "sellPlaced"
    /\ OthersAtAwait(t)
    /\ LET o == loc[t].ord
       IN IF VerifyMatched(o)
          THEN /\ orders' = [orders EXCEPT ![o].ver = "matched"]
               /\ ExitOutcome(positions, loc[t].pos, loc[t].index, loc[t].reason, TRUE)
               /\ loc' = [loc EXCEPT ![t] = ClearExit(loc[t])]
               /\ pc' = [pc EXCEPT ![t] = "close"]
          ELSE /\ orders' = [orders EXCEPT ![o].ver = "unmatched"]
               /\ pc' = [pc EXCEPT ![t] = CancelPc("sell")]
               /\ UNCHANGED <<positions, bankroll, history, loc, failures,
                              dailyPnl>>
    /\ UNCHANGED <<running, live, markets, ticking, entryLock, cooling>>

(* cancelOrder answered; _simulateExit returns null *)
SellCancel(t) ==
    /\ pc[t] = "sellCancel"
    /\ OthersAtAwait(t)
    /\ LET o == loc[t].ord
       IN \E ok \in BOOLEAN :
            orders' = [orders EXCEPT ![o].cancelled = TRUE,
                                     ![o].st = CancelResult(o, ok)]
    /\ ExitOutcome(positions, loc[t].pos, loc[t].index, loc[t].reason, FALSE)
    /\ loc' = [loc EXCEPT ![t] = ClearExit(loc[t])]
    /\ pc' = [pc EXCEPT ![t] = "close"]
    /\ UNCHANGED <<running, live, markets, ticking, entryLock, cooling>>

----------------------------------------------------------------------------
(* Entries: _scanEntries, _autoEntryDaily, manualTrade, all through        *)
(* _simulateEntry                                                          *)

HasPositionOn(tf) == \E i \in 1..Len(positions) : positions[i].tf = tf

(* lines 2162-2172 with MAX_POSITIONS - positions.length = 1 open slot *)
ScanBetSize(raw) ==
    Max(PROBE_SIZE, Min(Min(raw, RoundDiv(bankroll * 98, 100)), MAX_SINGLE_BET))

(* lines 2442-2443 *)
AutoBetSize ==
    Min(Min(RoundDiv(bankroll * 98, 100), bankroll - 1), MAX_SINGLE_BET)

(* this.markets.sort: 1h before 1d *)
SortedMarkets ==
    (IF "1h" \in markets THEN <<"1h">> ELSE <<>>) \o
    (IF "1d" \in markets THEN <<"1d">> ELSE <<>>)

(* the bet deducted twice *)
OpenPosition_Twice(o, tf, bet, entry) ==
    /\ bankroll' = Max(0, bankroll - 2 * bet)
    /\ positions' = Append(positions, [oid |-> o, tf |-> tf, cost |-> bet,
                                       entry |-> entry,
                                       size |-> Shares(bet, entry)])

(* The position is recorded: bankroll floor-deducted, position pushed *)
OpenPosition(o, tf, bet, entry) ==
    /\ bankroll' = Max(0, bankroll - bet)
    /\ positions' = Append(positions, [oid |-> o, tf |-> tf, cost |-> bet,
                                       entry |-> entry,
                                       size |-> Shares(bet, entry)])

(* Where a handler goes once _simulateEntry has answered *)
AfterEntry(h) ==
    CASE loc[h].path = "scan" -> "scanLoop"
      [] loc[h].path = "auto" -> "finish"
      [] OTHER -> "idle"

ClearEntry(h) ==
    IF loc[h].path = "scan"
    THEN [loc[h] EXCEPT !.ord = 0, !.bet = 0, !.tf = "none", !.path = "none"]
    ELSE NoLoc

(* this._lastEntryTime = Date.now() after the push in _scanEntries (2237)  *)
(* and _autoEntryDailyInner (2477); manualTrade leaves it alone            *)
CoolingAfter(path) == IF path \in {"scan", "auto"} THEN TRUE ELSE cooling

(* How often a null from _simulateEntry is counted: `inside` times in      *)
(* _simulateEntry itself, and once more by _scanEntries (line 2199)        *)
NullCount(path, inside) == inside + (IF path = "scan" THEN 1 ELSE 0)

(* _autoEntryDaily's finally block *)
EntryLockAfter(h) == IF loc[h].path = "auto" THEN FALSE ELSE entryLock

(* _simulateEntry is entered with (tf, bet) on behalf of `path`.  Live:    *)
(* buyShares places a GTC order that rests on the book or is matched at    *)
(* once, or placement fails and null is returned.  Paper: the fill is      *)
(* simulated on the spot (the order record stands for it), or the book has *)
(* no asks and null is returned.                                           *)
BeginEntry(h, path, tf, bet, nextLoc, lockNow) ==
    IF live
    THEN /\ \/ /\ CanPlace
               /\ \E st \in {"live", "matched"} :
                     orders' = Append(orders, NewOrder("buy", st))
               /\ loc' = [loc EXCEPT ![h] = [nextLoc EXCEPT !.path = path, !.tf = tf,
                                                      !.bet = bet, !.ord = Len(orders) + 1]]
               /\ pc' = [pc EXCEPT ![h] = "buyPlaced"]
               /\ entryLock' = lockNow
               /\ UNCHANGED failures
            \/ /\ Failed(NullCount(path, 1))
               /\ loc' = [loc EXCEPT ![h] = IF path = "scan" THEN nextLoc ELSE NoLoc]
               /\ pc' = [pc EXCEPT ![h] = CASE path = "scan" -> "scanLoop"
                                      [] path = "auto" -> "finish"
                                      [] OTHER -> "idle"]
               /\ UNCHANGED <<entryLock, orders>>
         /\ UNCHANGED <<positions, bankroll, cooling>>
    ELSE /\ \/ /\ CanPlace
               /\ orders' = Append(orders, [NewOrder("buy", "matched") EXCEPT
                                               !.ver = "matched", !.tracked = TRUE])
               /\ \E entry \in EntryPrices :
                     OpenPosition(Len(orders) + 1, tf, bet, entry)
               /\ cooling' = CoolingAfter(path)
               /\ UNCHANGED failures
            \/ /\ Failed(NullCount(path, 0))
               /\ UNCHANGED <<positions, bankroll, orders, cooling>>
         /\ loc' = [loc EXCEPT ![h] = IF path = "scan" THEN nextLoc ELSE NoLoc]
         /\ pc' = [pc EXCEPT ![h] = CASE path = "scan" -> "scanLoop"
                                      [] path = "auto" -> "finish"
                                      [] OTHER -> "idle"]
         /\ UNCHANGED entryLock

(* _scanEntries up to its loop: the early returns of lines 2011-2023 *)
ScanStart(t) ==
    /\ pc[t] = "scan"
    /\ OthersAtAwait(t)
    /\ IF \/ Len(positions) >= MAX_POSITIONS
          \/ bankroll < PROBE_SIZE
          \/ DailyLossHit
          \/ ~CheckModelHealth
          \/ cooling
       THEN pc' = [pc EXCEPT ![t] = "auto"] /\ UNCHANGED loc
       ELSE /\ pc' = [pc EXCEPT ![t] = "scanLoop"]
            /\ loc' = [loc EXCEPT ![t].todo = SortedMarkets]
    /\ UNCHANGED <<running, live, markets, ticking, entryLock, bankroll,
                   positions, history, orders>>
    /\ UNCHANGED <<failures, cooling, dailyPnl>>

(* One iteration of the market loop of _scanEntries; the signal, the gate  *)
(* and the conviction tier are inputs                                      *)
ScanNext(t) ==
    /\ pc[t] = "scanLoop"
    /\ OthersAtAwait(t)
    /\ IF loc[t].todo = <<>> \/ Len(positions) >= MAX_POSITIONS
                             \/ bankroll < PROBE_SIZE
       THEN /\ pc' = [pc EXCEPT ![t] = "auto"]
            /\ loc' = [loc EXCEPT ![t].todo = <<>>]
            /\ UNCHANGED <<entryLock, positions, bankroll, orders, failures,
                           cooling>>
       ELSE LET tf == Head(loc[t].todo)
                next == [loc[t] EXCEPT !.todo = Tail(loc[t].todo)]
            IN \/ \* continue: position on this market, or no signal
                  /\ loc' = [loc EXCEPT ![t] = next]
                  /\ UNCHANGED <<pc, entryLock, positions, bankroll, orders,
                                 failures, cooling>>
               \/ /\ ~HasPositionOn(tf)
                  /\ \E raw \in RawBets :
                        BeginEntry(t, "scan", tf, ScanBetSize(raw), next, entryLock)
    /\ UNCHANGED <<running, live, markets, ticking, history, dailyPnl>>

(* _autoEntryDaily and _autoEntryDailyInner: BTC daily market only *)
AutoEntry(t) ==
    /\ pc[t] = "auto"
    /\ OthersAtAwait(t)
    /\ IF \/ entryLock
          \/ bankroll < PROBE_SIZE
          \/ Len(positions) >= MAX_POSITIONS
          \/ cooling
          \/ "1d" \notin markets
          \/ HasPositionOn("1d")
          \/ AutoBetSize < PROBE_SIZE
       THEN /\ pc' = [pc EXCEPT ![t] = "finish"]
            /\ UNCHANGED <<loc, entryLock, positions, bankroll, orders,
                           failures, cooling>>
       ELSE \/ \* hours left, price band, no valid price: return 0
               /\ pc' = [pc EXCEPT ![t] = "finish"]
               /\ UNCHANGED <<loc, entryLock, positions, bankroll, orders,
                              failures, cooling>>
            \/ BeginEntry(t, "auto", "1d", AutoBetSize, loc[t], live)
    /\ UNCHANGED <<running, live, markets, ticking, history, dailyPnl>>

(* manualTrade(asset, side, betSize): the checks, the market by            *)
(* tfPriority, then _simulateEntry                                         *)
ManualMarket == IF "1d" \in markets THEN "1d"
                ELSE IF "1h" \in markets THEN "1h" ELSE "none"

ManualAccepts(bet) == bet >= PROBE_SIZE /\ bet <= bankroll

ManualTrade ==
    /\ Idle("manual")
    /\ AllAtAwait
    /\ running
    /\ \E bet \in ManualBets :
          /\ ManualAccepts(bet)
          /\ ManualMarket # "none"
          /\ BeginEntry("manual", "manual", ManualMarket, bet, NoLoc, entryLock)
    /\ UNCHANGED <<running, live, markets, ticking, history, dailyPnl>>

(* after the 2 s wait: verifyOrder; a match opens the position *)
BuyVerify(h) ==
    /\ pc[h] = "buyPlaced"
    /\ OthersAtAwait(h)
    /\ LET o == loc[h].ord
       IN IF VerifyMatched(o)
          THEN /\ orders' = [orders EXCEPT ![o].ver = "matched", ![o].tracked = TRUE]
               /\ \E entry \in EntryPrices :
                     OpenPosition(o, loc[h].tf, loc[h].bet, entry)
               /\ pc' = [pc EXCEPT ![h] = AfterEntry(h)]
               /\ loc' = [loc EXCEPT ![h] = ClearEntry(h)]
               /\ entryLock' = EntryLockAfter(h)
               /\ cooling' = CoolingAfter(loc[h].path)
          ELSE /\ orders' = [orders EXCEPT ![o].ver = "unmatched"]
               /\ pc' = [pc EXCEPT ![h] = CancelPc("buy")]
               /\ UNCHANGED <<positions, bankroll, loc, entryLock, cooling>>
    /\ UNCHANGED <<running, live, markets, ticking, history, failures, dailyPnl>>

(* cancelOrder answered; _simulateEntry returns null *)
BuyCancel(h) ==
    /\ pc[h] = "buyCancel"
    /\ OthersAtAwait(h)
    /\ LET o == loc[h].ord
       IN \E ok \in BOOLEAN :
            orders' = [orders EXCEPT ![o].cancelled = TRUE,
                                     ![o].st = CancelResult(o, ok)]
    /\ pc' = [pc EXCEPT ![h] = AfterEntry(h)]
    /\ loc' = [loc EXCEPT ![h] = ClearEntry(h)]
    /\ entryLock' = EntryLockAfter(h)
    /\ Failed(NullCount(loc[h].path, 1))
    /\ UNCHANGED <<running, live, markets, ticking, bankroll, positions, history,
                   cooling, dailyPnl>>

(* The tick's last statements: save(), and _ticking = false *)
Finish(t) ==
    /\ pc[t] = "finish"
    /\ OthersAtAwait(t)
    /\ ticking' = FALSE
    /\ pc' = [pc EXCEPT ![t] = "idle"]
    /\ loc' = [loc EXCEPT ![t] = NoLoc]
    /\ UNCHANGED <<running, live, markets, entryLock, bankroll, positions, history, orders>>
    /\ UNCHANGED <<failures, cooling, dailyPnl>>

----------------------------------------------------------------------------

(* The steps of the two loops *)
TickSteps ==
    \/ FullTickStart
    \/ PoolSync
    \/ FastTickStart
    \/ \E t \in Ticks :
         \/ Throw(t)
         \/ NoPrices(t)
         \/ Manage(t)
         \/ CloseNext(t)
         \/ SellVerify(t)
         \/ SellCancel(t)
         \/ ScanStart(t)
         \/ ScanNext(t)
         \/ AutoEntry(t)
         \/ Finish(t)
    \/ \E h \in Handlers :
         \/ BuyVerify(h)
         \/ BuyCancel(h)

(* Everything that runs once the engine is up *)
Running ==
    \/ RefreshMarkets
    \/ Reset
    \/ ManualTrade
    \/ \E o \in 1..MaxOrders : VenueFill(o)
    \/ CooldownElapses
    \/ TickSteps

Next == ScalperInit \/ Running

Spec == Init /\ [][Next]_vars

----------------------------------------------------------------------------
(* Boot with saved state: init() loads the positions and the bankroll a    *)
(* previous run saved, then reconcileOnChain() compares each position with *)
(* the token balance on chain.                                             *)

(* What a previous run can have saved: one BTC 1d position bought with     *)
(* $4.00 at 0.50, or two of them (two manual trades), out of $8.25         *)
SavedPos == [oid |-> 0, tf |-> "1d", cost |-> 400, entry |-> 50,
             size |-> Shares(400, 50)]

SavedStates ==
    {[positions |-> <<SavedPos>>, bankroll |-> STARTING_BANKROLL - 400],
     [positions |-> <<SavedPos, SavedPos>>, bankroll |-> STARTING_BANKROLL - 800]}

(* Token balance on chain, in hundredths of a share: nothing, one          *)
(* position's shares, two positions' shares                                *)
OnChainShares == {0, Shares(400, 50), Shares(800, 50)}

Abs(x) == IF x >= 0 THEN x ELSE -x

(* reconcileOnChain lines 183-201: a position with less than 0.5 share on  *)
(* chain is dropped; one whose size is off by more than 0.1 takes the      *)
(* on-chain balance as its size                                            *)
RECURSIVE Reconciled(_, _)
Reconciled(ps, shares) ==
    IF ps = <<>> THEN <<>>
    ELSE LET p == Head(ps)
         IN (IF shares >= 50
             THEN <<IF Abs(shares - p.size) > 10
                    THEN [p EXCEPT !.size = shares] ELSE p>>
             ELSE <<>>)
            \o Reconciled(Tail(ps), shares)

InitSaved ==
    /\ running = FALSE
    /\ live = TRUE
    /\ markets = {}
    /\ ticking = FALSE
    /\ entryLock = FALSE
    /\ \E sv \in SavedStates :
          positions = sv.positions /\ bankroll = sv.bankroll
    /\ history = <<>>
    /\ orders = <<>>
    /\ pc = [h \in Handlers |-> "idle"]
    /\ loc = [h \in Handlers |-> NoLoc]
    /\ failures = 0
    /\ cooling = FALSE
    /\ dailyPnl = 0

(* init() and reconcileOnChain(), before the loops start *)
ReconcileOnChain ==
    /\ ~running
    /\ live /\ Len(positions) > 0
    /\ running' = TRUE
    /\ \E shares \in OnChainShares, walletBal \in WalletVals :
          LET reconciled == Reconciled(positions, shares)
          IN /\ positions' = reconciled
             /\ bankroll' = IF Len(reconciled) # Len(positions) /\ walletBal > 0
                            THEN walletBal ELSE bankroll
    /\ UNCHANGED <<live, markets, ticking, entryLock, history, orders, pc, loc>>
    /\ UNCHANGED <<failures, cooling, dailyPnl>>

NextSaved == ReconcileOnChain \/ RefreshMarkets \/ CooldownElapses \/ TickSteps

SpecSaved == InitSaved /\ [][NextSaved]_vars

----------------------------------------------------------------------------
(* A restart on the same day after a losing run: init() restores dailyPnl, *)
(* bankroll and history from the saved state (lines 268-287); no position  *)
(* is open.                                                                *)

SavedTrade(pnl) ==
    [oid |-> 0, reason |-> "LIQ-FORCE", cost |-> PROBE_SIZE, pnl |-> pnl,
     filled |-> TRUE]

(* the newest HEALTH_WINDOW trades, `wins` of them won *)
SavedHistory(wins) ==
    [i \in 1..HEALTH_WINDOW |-> IF i <= wins THEN SavedTrade(20) ELSE SavedTrade(-20)]

SavedDays ==
    {[dailyPnl |-> -DAILY_LOSS_LIMIT, history |-> << >>,
      bankroll |-> STARTING_BANKROLL - DAILY_LOSS_LIMIT],
     [dailyPnl |-> 0, history |-> SavedHistory(13),
      bankroll |-> STARTING_BANKROLL]}

InitHalted ==
    /\ running = FALSE
    /\ live \in BOOLEAN
    /\ markets = {}
    /\ ticking = FALSE
    /\ entryLock = FALSE
    /\ positions = <<>>
    /\ \E sv \in SavedDays :
          /\ dailyPnl = sv.dailyPnl
          /\ history = sv.history
          /\ bankroll = sv.bankroll
    /\ orders = <<>>
    /\ pc = [h \in Handlers |-> "idle"]
    /\ loc = [h \in Handlers |-> NoLoc]
    /\ failures = 0
    /\ cooling = FALSE

SpecHalted == InitHalted /\ [][Next]_vars

----------------------------------------------------------------------------
(* The exit rules of _managePositions (lines 1617-1934), for one position  *)
(* on one tick.  pos is the position as stored (entry price in cents per   *)
(* share, size in hundredths of a share, peakGain and targetProfit in      *)
(* tenths of a cent); v is what the tick sees: cp the token price in cents *)
(* (0: prices has no entry for the token), secsToEnd (NoEndDate when the   *)
(* position has no endDate), prob the support probability in percent,      *)
(* sigmas ten times sigmasNeeded, the verdict of the market intelligence   *)
(* (mi), the reversal signal (rev), and the clock against holdAge,         *)
(* _latencyHoldTs and the stale limit.                                     *)

NoEndDate == 99999

STOP_LOSS_BY_TF(tf) ==
    CASE tf = "5m" -> 120 [] tf = "15m" -> 180 [] tf = "1h" -> 280
      [] tf = "4h" -> 350 [] tf = "1d" -> 400 [] OTHER -> 150

TRAILING_LOCK_BY_TF(tf) ==
    CASE tf = "5m" -> 50 [] tf = "15m" -> 45 [] tf = "1h" -> 35
      [] tf = "4h" -> 30 [] tf = "1d" -> 25 [] OTHER -> 45

PROFIT_TARGET_BY_TF(tf) ==
    CASE tf = "5m" -> 8 [] tf = "15m" -> 12 [] tf = "1h" -> 20
      [] tf = "4h" -> 28 [] tf = "1d" -> 45 [] OTHER -> 8

HOLD_THROUGH_DIPS(tf) == tf \in {"1h", "4h", "1d"}

LIQUIDITY_EXIT_BY_TF(tf) ==
    CASE tf = "5m" -> 30 [] tf = "15m" -> 60 [] tf = "1h" -> 120
      [] tf = "4h" -> 240 [] tf = "1d" -> 600 [] OTHER -> 60

FORCE_EXIT_BY_TF(tf) ==
    CASE tf = "5m" -> 15 [] tf = "15m" -> 30 [] tf = "1h" -> 60
      [] tf = "4h" -> 120 [] tf = "1d" -> 300 [] OTHER -> 30

FlipMinAge(tf) ==
    CASE tf = "1d" -> 300 [] tf = "4h" -> 180 [] tf = "1h" -> 120 [] OTHER -> 30

isLongTF(tf) == tf \in {"1d", "4h", "1h"}

(* (cp - pos.entryPrice) * pos.size, in tenths of a cent *)
Unrealized(pos, cp) == ((cp - pos.entry) * pos.size) \div 10

(* line 1624: if (!pos.peakGain || unrealized > pos.peakGain) *)
PeakGain(pos, cp) ==
    IF pos.peakGain = 0 \/ Unrealized(pos, cp) > pos.peakGain
    THEN Unrealized(pos, cp) ELSE pos.peakGain

(* support.supports: probability > 0.55 *)
Supports(v) == v.prob > 55

Pass == [reason |-> "PASS", exitPrice |-> 0]
Hold == [reason |-> "HOLD", exitPrice |-> 0]
Exit(reason, price) == [reason |-> reason, exitPrice |-> price]

(* lines 1634-1641: the market has expired *)
RuleResolve(pos, v) ==
    IF v.secsToEnd # NoEndDate /\ v.secsToEnd <= 0
    THEN IF Supports(v) /\ v.prob > 50
         THEN Exit("WIN-RESOLVE", 95) ELSE Exit("LOSS-RESOLVE", 5)
    ELSE Pass

(* lines 1662-1683: a 5m position in its last two minutes *)
RuleHold5m(pos, v) ==
    IF pos.tf = "5m" /\ v.secsToEnd > 0 /\ v.secsToEnd < 120
          /\ (v.cp > 55 \/ v.cp < 10)
    THEN Hold ELSE Pass

(* lines 1685-1702: the force-exit zone *)
RuleForce(pos, v) ==
    IF v.secsToEnd < FORCE_EXIT_BY_TF(pos.tf) /\ v.secsToEnd > 0
    THEN IF (isLongTF(pos.tf) \/ pos.tf = "5m") /\ Supports(v) /\ v.prob > 55
         THEN Hold
         ELSE IF isLongTF(pos.tf) /\ v.cp < 3
         THEN Hold
         ELSE Exit("LIQ-FORCE", v.cp)
    ELSE Pass

(* the 4-sigma salvage without its 60-minute limit *)
RuleSalvage_AnyTime(pos, v) ==
    IF isLongTF(pos.tf) /\ Unrealized(pos, v.cp) <= 0 /\ v.sigmas > 40 /\ v.cp > 3
    THEN Exit("SALVAGE-SIGMA", v.cp) ELSE Pass

(* lines 1707-1730: salvage while buyers exist; minsLeft = secsToEnd / 60 *)
RuleSalvage(pos, v) ==
    IF isLongTF(pos.tf) /\ Unrealized(pos, v.cp) <= 0 /\ v.sigmas > 0
    THEN CASE v.sigmas > 40 /\ v.secsToEnd < 3600 /\ v.cp > 3 ->
                 Exit("SALVAGE-SIGMA", v.cp)
           [] v.sigmas > 30 /\ v.secsToEnd < 1800 /\ v.cp > 3 ->
                 Exit("SALVAGE-SIGMA", v.cp)
           [] v.sigmas > 20 /\ v.secsToEnd < 900 /\ v.cp > 5 ->
                 Exit("SALVAGE-LAST", v.cp)
           [] v.cp < 3 -> Hold
           [] OTHER -> Pass
    ELSE Pass

(* lines 1733-1745: a long-timeframe position in profit near expiry *)
RuleLiqSafe(pos, v) ==
    IF isLongTF(pos.tf) /\ v.secsToEnd > 0 /\ Unrealized(pos, v.cp) > 0
          /\ v.secsToEnd < LIQUIDITY_EXIT_BY_TF(pos.tf)
    THEN IF Supports(v) /\ v.prob > 75 THEN Hold ELSE Exit("LIQ-SAFE", v.cp)
    ELSE Pass

(* the gate left out *)
RuleHoldGate_Off(pos, v) == Pass

(* lines 1747-1759: the long-timeframe hold gate *)
RuleHoldGate(pos, v) ==
    IF isLongTF(pos.tf) /\ Unrealized(pos, v.cp) <= 0 THEN Hold ELSE Pass

(* daily markets held whatever the gain *)
RuleDaily_NoProfitExit(pos, v) ==
    IF pos.tf = "1d"
    THEN IF v.cp <= 2 THEN Exit("DEAD-1D-2c", v.cp) ELSE Hold
    ELSE Pass

(* lines 1761-1789: daily markets; pctGain = unrealized / costBasis *)
RuleDaily(pos, v) ==
    IF pos.tf = "1d"
    THEN IF Unrealized(pos, v.cp) * 10 >= 45 * (IF pos.cost = 0 THEN 100 ELSE pos.cost)
         THEN Exit("PROFIT-1D-45%", v.cp)
         ELSE IF v.cp <= 2 THEN Exit("DEAD-1D-2c", v.cp) ELSE Hold
    ELSE Pass

(* lines 1791-1797 *)
RulePredExit(pos, v) ==
    IF pos.pred /\ v.catchingUp /\ Unrealized(pos, v.cp) > 0
    THEN Exit("PRED-EXIT", v.cp) ELSE Pass

(* lines 1808-1827: the market-intelligence exit *)
RuleMi(pos, v) ==
    IF v.mi.exitNow /\ Unrealized(pos, v.cp) # 0
    THEN IF v.mi.chartExit /\ v.mi.conf > 60
         THEN Exit("chart-exit", v.cp)
         ELSE IF HOLD_THROUGH_DIPS(pos.tf) /\ Supports(v) /\ v.prob > 65
         THEN Pass
         ELSE Exit("MI", v.cp)
    ELSE Pass

(* miExit.chart.holdSignal && confidence > 0.45 *)
ChartHold(v) == v.mi.holdSignal /\ v.mi.conf > 45

(* pos.targetProfit || pos.costBasis * tfTargetPct, times 10 *)
TargetProfit10(pos) ==
    IF pos.targetProfit # 0 THEN pos.targetProfit * 10
    ELSE pos.cost * PROFIT_TARGET_BY_TF(pos.tf)

(* lines 1839-1856: the profit target *)
RuleProfit(pos, v) ==
    LET unrealized == Unrealized(pos, v.cp)
    IN IF unrealized * 10 >= TargetProfit10(pos)
       THEN IF isLongTF(pos.tf)
                 /\ (ChartHold(v) \/ (v.prob > 70
                                      /\ unrealized * 20 < TargetProfit10(pos) * 5))
            THEN Pass
            ELSE Exit("PROFIT", v.cp)
       ELSE Pass

(* the trailing stop armed whatever the peak *)
TrailArmed_Always(peakGain) == TRUE

(* line 1860: pos.peakGain > 0.015 *)
TrailArmed(peakGain) == peakGain > 15

(* lines 1858-1881: the trailing stop *)
RuleTrail(pos, v) ==
    LET unrealized == Unrealized(pos, v.cp)
        peakGain == PeakGain(pos, v.cp)
    IN IF TrailArmed(peakGain)
             /\ unrealized * 100 < peakGain * TRAILING_LOCK_BY_TF(pos.tf)
       THEN IF HOLD_THROUGH_DIPS(pos.tf)
                 /\ (ChartHold(v) \/ (Supports(v) /\ v.prob > 60))
            THEN IF unrealized * 100
                      < peakGain * (IF pos.tf \in {"1d", "4h"} THEN 5 ELSE 10)
                 THEN Exit("TRAIL-WIDE", v.cp) ELSE Pass
            ELSE IF v.mi.holdThrough
            THEN IF unrealized * 10 < peakGain
                 THEN Exit("TRAIL-WIDE", v.cp) ELSE Pass
            ELSE Exit("TRAIL", v.cp)
       ELSE Pass

(* the flip without its minimum hold age *)
RuleFlip_AnyAge(pos, v) ==
    IF v.rev /\ Unrealized(pos, v.cp) < 5
          /\ ~(HOLD_THROUGH_DIPS(pos.tf) /\ Supports(v))
    THEN Exit("FLIP", v.cp) ELSE Pass

(* lines 1883-1896: the flip signal *)
RuleFlip(pos, v) ==
    IF v.rev /\ Unrealized(pos, v.cp) < 5 /\ v.holdAge > FlipMinAge(pos.tf)
          /\ ~(HOLD_THROUGH_DIPS(pos.tf) /\ Supports(v))
    THEN Exit("FLIP", v.cp) ELSE Pass

(* lines 1901-1908: the stop level in per mille of the entry price *)
EffectiveStop(pos, v) ==
    IF Supports(v) /\ v.prob > 70 THEN (STOP_LOSS_BY_TF(pos.tf) * 15) \div 10
    ELSE IF ~Supports(v) /\ v.prob < 40 THEN (STOP_LOSS_BY_TF(pos.tf) * 7) \div 10
    ELSE STOP_LOSS_BY_TF(pos.tf)

StopHit(pos, v) == v.cp * 1000 < pos.entry * (1000 - EffectiveStop(pos, v))

(* lines 1910-1926: the stop loss, delayed while the underlying agrees *)
RuleStop(pos, v) ==
    IF StopHit(pos, v)
    THEN IF HOLD_THROUGH_DIPS(pos.tf) /\ v.directionMatch
         THEN IF pos.latencyHold /\ v.latencyElapsed
              THEN Exit("STOP", v.cp) ELSE Pass
         ELSE Exit("STOP", v.cp)
    ELSE Pass

(* lines 1929-1933 *)
RuleStale(pos, v) ==
    IF ~isLongTF(pos.tf) /\ v.stale /\ Abs(Unrealized(pos, v.cp)) < 5
    THEN Exit("STALE", v.cp) ELSE Pass

(* the profit target moved ahead of the loss gate and the rules between *)
RuleChain_ProfitFirst(pos, v) ==
    <<RuleResolve(pos, v), RuleHold5m(pos, v), RuleForce(pos, v),
      RuleSalvage(pos, v), RuleProfit(pos, v), RuleLiqSafe(pos, v),
      RuleHoldGate(pos, v), RuleDaily(pos, v), RulePredExit(pos, v),
      RuleMi(pos, v), RuleTrail(pos, v), RuleFlip(pos, v),
      RuleStop(pos, v), RuleStale(pos, v)>>

(* The rules in the order of the loop body: each `continue` ends the       *)
(* position's turn, so the first rule that does not pass decides.          *)
RuleChain(pos, v) ==
    <<RuleResolve(pos, v), RuleHold5m(pos, v), RuleForce(pos, v),
      RuleSalvage(pos, v), RuleLiqSafe(pos, v), RuleHoldGate(pos, v),
      RuleDaily(pos, v), RulePredExit(pos, v), RuleMi(pos, v),
      RuleProfit(pos, v), RuleTrail(pos, v), RuleFlip(pos, v),
      RuleStop(pos, v), RuleStale(pos, v)>>

(* line 1621: if (!cp) continue, before every rule *)
ExitRule(pos, v) ==
    IF v.cp = 0 THEN Hold
    ELSE LET chain == RuleChain(pos, v)
             hits == {k \in 1..Len(chain) : chain[k].reason # "PASS"}
         IN IF hits = {} THEN Hold
            ELSE chain[CHOOSE k \in hits : \A j \in hits : k <= j]

(* pos._latencyHoldTs after the tick: touched only when the stop rule is   *)
(* reached                                                                 *)
LatencyHoldAfter(pos, v) ==
    LET chain == RuleChain(pos, v)
    IN IF v.cp = 0 \/ \E k \in 1..12 : chain[k].reason # "PASS"
       THEN pos.latencyHold
       ELSE IF StopHit(pos, v)
       THEN IF HOLD_THROUGH_DIPS(pos.tf) /\ v.directionMatch
            THEN IF ~pos.latencyHold THEN TRUE
                 ELSE IF v.latencyElapsed THEN FALSE ELSE TRUE
            ELSE pos.latencyHold
       ELSE FALSE

(* What the tick writes back to the position *)
Managed(pos, v) ==
    IF v.cp = 0 THEN pos
    ELSE [pos EXCEPT !.peakGain = PeakGain(pos, v.cp),
                     !.latencyHold = LatencyHoldAfter(pos, v)]

(* One position under management when a fast tick reaches                 *)
(* _managePositions, and what that tick sees of it                         *)

Timeframes == {"5m", "1h", "1d"}
PeakGains == {0, 10, 200}
TokenPrices == {0, 2, 4, 35, 50, 80}
SecsToEnd == {-5, 10, 200, 800, 3000, 36000, NoEndDate}
Probabilities == {30, 58, 80}
SigmasNeeded == {0, 25, 45}

ManagedPositions ==
    {[oid |-> 1, tf |-> tf, cost |-> 400, entry |-> 50, size |-> Shares(400, 50),
      peakGain |-> peak, targetProfit |-> 0, pred |-> FALSE,
      latencyHold |-> FALSE] : tf \in Timeframes, peak \in PeakGains}

(* what _mi.analyzeExit answers *)
MiVerdicts ==
    {[exitNow |-> FALSE, chartExit |-> FALSE, conf |-> 0, holdSignal |-> FALSE,
      holdThrough |-> FALSE],
     [exitNow |-> TRUE, chartExit |-> FALSE, conf |-> 0, holdSignal |-> FALSE,
      holdThrough |-> FALSE],
     [exitNow |-> FALSE, chartExit |-> FALSE, conf |-> 0, holdSignal |-> FALSE,
      holdThrough |-> TRUE]}

(* sigmasNeeded is 0 when the underlying moved our way (line 1651) *)
Views ==
    {v \in [cp : TokenPrices, secsToEnd : SecsToEnd, prob : Probabilities,
            directionMatch : BOOLEAN, sigmas : SigmasNeeded,
            catchingUp : {FALSE}, mi : MiVerdicts, rev : BOOLEAN,
            holdAge : {400}, latencyElapsed : {TRUE}, stale : {FALSE}] :
        v.directionMatch => v.sigmas = 0}

InitRules ==
    /\ running = TRUE
    /\ live = FALSE
    /\ markets = {"1h", "1d"}
    /\ ticking = TRUE
    /\ entryLock = FALSE
    /\ bankroll = STARTING_BANKROLL - 400
    /\ \E pos \in ManagedPositions : positions = <<pos>>
    /\ history = <<>>
    /\ orders = <<>>
    /\ pc = [h \in Handlers |-> IF h = "fast" THEN "body" ELSE "idle"]
    /\ \E v \in Views :
          loc = [h \in Handlers |->
                   IF h = "fast" THEN [view |-> v] @@ NoLoc ELSE NoLoc]
    /\ failures = 0
    /\ cooling = FALSE
    /\ dailyPnl = 0

(* the loop of _managePositions over the position: its verdict goes to     *)
(* toClose, peakGain and _latencyHoldTs are written back                   *)
ManageByRules ==
    /\ pc["fast"] = "body"
    /\ LET pos == positions[1]
           v == loc["fast"].view
           verdict == ExitRule(pos, v)
       IN /\ positions' = <<Managed(pos, v)>>
          /\ loc' = [loc EXCEPT !["fast"].toClose =
                        IF verdict.reason = "HOLD" THEN << >>
                        ELSE <<[index |-> 0, reason |-> verdict.reason,
                                exitPrice |-> verdict.exitPrice]>>]
    /\ pc' = [pc EXCEPT !["fast"] = "close"]
    /\ UNCHANGED <<running, live, markets, ticking, entryLock, bankroll, history,
                   orders, failures, cooling, dailyPnl>>

NextRules == ManageByRules

SpecRules == InitRules /\ [][NextRules]_vars

----------------------------------------------------------------------------
(* The signal engine (scalper.js 682-873).  In the specification of the    *)
(* engine alone loc holds _realPrices of one asset (samples of price and   *)
(* ts, oldest first), the clock Date.now() in seconds, and the signal the  *)
(* last call of _getSignal returned at this instant, if one was made.      *)
(* Momentum is a ratio, so only the ratios of the prices matter; the       *)
(* prices are chosen so that every momentum is a whole number of parts per *)
(* million.                                                                *)

MaxSamples == 3
MaxClock == 200

MOM_WEAK == 200
MOM_STRONG == 2000
MIN_SAMPLES == 3
MIN_DATA_AGE == 30
MAX_PRICE_DIST == 120

FeedPrices == {100, 125}
Elapses == {10, 150}
Boosts == {392, 1000}

NoSignal == [direction |-> 0, strength |-> 0, reason |-> "none"]

(* _getPriceAtTime walks back from the newest sample while the distance to *)
(* the target time shrinks; best is the index of the nearest one so far    *)
RECURSIVE Nearest(_, _, _, _)
Nearest(hist, i, targetTs, best) ==
    IF i = 0 THEN best
    ELSE IF Abs(hist[i].ts - targetTs) < Abs(hist[best].ts - targetTs)
         THEN Nearest(hist, i - 1, targetTs, i)
         ELSE best

(* null is 0: every recorded price is positive *)
GetPriceAtTime(hist, now, secsAgo) ==
    IF Len(hist) = 0 THEN 0
    ELSE LET targetTs == now - secsAgo
             best == Nearest(hist, Len(hist) - 1, targetTs, Len(hist))
         IN IF Abs(hist[best].ts - targetTs) < MAX_PRICE_DIST
            THEN hist[best].price ELSE 0

(* a || b on prices *)
OrElse(a, b) == IF a # 0 THEN a ELSE b

(* (now - p) / p, in parts per million *)
Momentum(now, p) == ((now - p) * 1000000) \div p

Sign(m) == IF m > 0 THEN 1 ELSE IF m < 0 THEN -1 ELSE 0

(* the cold-start guards of _getSignalRaw left out *)
EnoughData_Any(hist, now) == Len(hist) > 0

(* hist.length >= 3 and at least 30 s since the oldest sample *)
EnoughData(hist, now) ==
    /\ Len(hist) >= MIN_SAMPLES
    /\ now - hist[1].ts >= MIN_DATA_AGE

(* strength is in thousandths, signal in hundredths of a part per million *)
GetSignalRaw(hist, now) ==
    IF ~EnoughData(hist, now)
    THEN [direction |-> 0, strength |-> 0,
          reason |-> IF Len(hist) < MIN_SAMPLES THEN "no-data" ELSE "warming-up"]
    ELSE LET dataAge == now - hist[1].ts
             cur  == hist[Len(hist)].price
             p30s == OrElse(GetPriceAtTime(hist, now, 30), cur)
             p90s == OrElse(GetPriceAtTime(hist, now, 90), p30s)
             p3m  == OrElse(GetPriceAtTime(hist, now, 180), p90s)
             p5m  == OrElse(GetPriceAtTime(hist, now, 300), p3m)
             p10m == OrElse(GetPriceAtTime(hist, now, 600), p5m)
             mom30s == Momentum(cur, p30s)
             mom90s == Momentum(cur, p90s)
             mom3m  == Momentum(cur, p3m)
             mom5m  == Momentum(cur, p5m)
             mom10m == Momentum(cur, p10m)
             signal == mom30s * 30 + mom90s * 25 + mom3m * 20 + mom5m * 15
                       + mom10m * 10
             absSignal == Abs(signal)
             signs == Sign(mom30s) + Sign(mom90s) + Sign(mom3m) + Sign(mom5m)
             raw == (Min((absSignal * 10) \div MOM_STRONG, 1000) * 6) \div 10
                    + Abs(signs) * 100
             strength == IF dataAge < 90 THEN Min(raw, 400)
                         ELSE IF dataAge < 180 THEN Min(raw, 700)
                         ELSE raw
         IN IF absSignal < MOM_WEAK * 100
            THEN [direction |-> 0, strength |-> 0, reason |-> "flat"]
            ELSE [direction |-> IF signal > 0 THEN 1 ELSE -1,
                  strength |-> strength, reason |-> ""]

(* _getSignal: the raw signal with its strength scaled by the product of   *)
(* the RSI, Bollinger, cross-asset, bear and volume factors (boost, in     *)
(* thousandths: between 0.7 * 0.8 * 0.7 and 1.15 * 1.1 * 1.15 * 1.2 * 1.2) *)
(* and capped at 1                                                         *)
GetSignal(hist, now, boost) ==
    LET raw == GetSignalRaw(hist, now)
    IN IF raw.direction = 0
       THEN [direction |-> 0, strength |-> 0, reason |-> "flat"]
       ELSE [direction |-> raw.direction,
             strength |-> Min((raw.strength * boost) \div 1000, 1000),
             reason |-> IF raw.direction > 0 THEN "bull" ELSE "bear"]

InitSignal ==
    /\ running = TRUE
    /\ live = FALSE
    /\ markets = {}
    /\ ticking = FALSE
    /\ entryLock = FALSE
    /\ bankroll = STARTING_BANKROLL
    /\ positions = <<>>
    /\ history = <<>>
    /\ orders = <<>>
    /\ pc = [h \in Handlers |-> "idle"]
    /\ loc = [realPrices |-> <<>>, clock |-> 0, asked |-> FALSE,
              signal |-> NoSignal]
    /\ failures = 0
    /\ cooling = FALSE
    /\ dailyPnl = 0

(* _updateRealPrices: a sample less than 500 ms after the last one         *)
(* replaces it, any other is appended                                      *)
UpdateRealPrices(price) ==
    LET hist == loc.realPrices
        sample == [price |-> price, ts |-> loc.clock]
    IN /\ IF Len(hist) > 0 /\ loc.clock - hist[Len(hist)].ts < 1
          THEN loc' = [loc EXCEPT !.realPrices = [hist EXCEPT ![Len(hist)] = sample],
                                  !.asked = FALSE, !.signal = NoSignal]
          ELSE /\ Len(hist) < MaxSamples
               /\ loc' = [loc EXCEPT !.realPrices = Append(hist, sample),
                                     !.asked = FALSE, !.signal = NoSignal]
       /\ UNCHANGED <<running, live, markets, ticking, entryLock, bankroll,
                      positions, history, orders, pc, failures, cooling, dailyPnl>>

(* time passes with no sample arriving *)
ClockAdvance(dt) ==
    /\ loc.clock + dt <= MaxClock
    /\ loc' = [loc EXCEPT !.clock = loc.clock + dt, !.asked = FALSE,
                          !.signal = NoSignal]
    /\ UNCHANGED <<running, live, markets, ticking, entryLock, bankroll,
                   positions, history, orders, pc, failures, cooling, dailyPnl>>

(* a caller (_logSignals, _scanEntries, _managePositions) asks for the     *)
(* asset's signal                                                          *)
AskSignal(boost) ==
    /\ ~loc.asked
    /\ loc' = [loc EXCEPT !.asked = TRUE,
                          !.signal = GetSignal(loc.realPrices, loc.clock, boost)]
    /\ UNCHANGED <<running, live, markets, ticking, entryLock, bankroll,
                   positions, history, orders, pc, failures, cooling, dailyPnl>>

NextSignal ==
    \/ \E price \in FeedPrices : UpdateRealPrices(price)
    \/ \E dt \in Elapses : ClockAdvance(dt)
    \/ \E boost \in Boosts : AskSignal(boost)

SpecSignal == InitSignal /\ [][NextSignal]_vars

----------------------------------------------------------------------------
(* The same tick over a wider choice of positions and views: a position    *)
(* entered on a prediction, one with _latencyHoldTs set, every kind of     *)
(* market-intelligence verdict, a hold age below the flip minimum, a       *)
(* position older than its stale limit, and times to expiry inside the     *)
(* liquidity windows.  catchingUp is read only for a prediction entry, the *)
(* latency timer can have run out only when it was started, the hold age   *)
(* is compared only under a reversal signal and the stale limit only for   *)
(* a short timeframe.                                                      *)

(* a 1h position that reconcileOnChain() cut down to the 0.4 shares found  *)
(* on chain: one cent of price is 0.4 cents of P&L                         *)
SmallPosition ==
    [oid |-> 1, tf |-> "1h", cost |-> 20, entry |-> 50, size |-> 40,
     peakGain |-> 0, targetProfit |-> 0, pred |-> FALSE, latencyHold |-> FALSE]

ExitPositions ==
    {[oid |-> 1, tf |-> tf, cost |-> 400, entry |-> 50, size |-> Shares(400, 50),
      peakGain |-> peak, targetProfit |-> 0, pred |-> pred,
      latencyHold |-> hold] :
        tf \in Timeframes, peak \in {0, 200}, pred \in BOOLEAN, hold \in BOOLEAN}
    \cup {SmallPosition}

ExitMiVerdicts ==
    {[exitNow |-> FALSE, chartExit |-> FALSE, conf |-> 0, holdSignal |-> FALSE,
      holdThrough |-> FALSE],
     [exitNow |-> TRUE, chartExit |-> FALSE, conf |-> 0, holdSignal |-> FALSE,
      holdThrough |-> FALSE],
     [exitNow |-> TRUE, chartExit |-> TRUE, conf |-> 70, holdSignal |-> FALSE,
      holdThrough |-> FALSE],
     [exitNow |-> FALSE, chartExit |-> FALSE, conf |-> 50, holdSignal |-> TRUE,
      holdThrough |-> TRUE]}

ExitViews ==
    {v \in [cp : {0, 35, 50, 51, 80}, secsToEnd : {-5, 10, 100, 400, 3000},
            prob : Probabilities, directionMatch : BOOLEAN, sigmas : {0, 45},
            catchingUp : BOOLEAN, mi : ExitMiVerdicts, rev : BOOLEAN,
            holdAge : {20, 400}, latencyElapsed : BOOLEAN, stale : BOOLEAN] :
        /\ v.directionMatch => v.sigmas = 0
        /\ ~v.rev => v.holdAge = 400}

InitExits ==
    /\ running = TRUE
    /\ live = FALSE
    /\ markets = {"1h", "1d"}
    /\ ticking = TRUE
    /\ entryLock = FALSE
    /\ bankroll = STARTING_BANKROLL - 400
    /\ \E pos \in ExitPositions : positions = <<pos>>
    /\ history = <<>>
    /\ orders = <<>>
    /\ pc = [h \in Handlers |-> IF h = "fast" THEN "body" ELSE "idle"]
    /\ \E v \in ExitViews :
          /\ v.catchingUp => positions[1].pred
          /\ v.latencyElapsed => positions[1].latencyHold
          /\ v.stale => ~isLongTF(positions[1].tf)
          /\ loc = [h \in Handlers |->
                      IF h = "fast" THEN [view |-> v] @@ NoLoc ELSE NoLoc]
    /\ failures = 0
    /\ cooling = FALSE
    /\ dailyPnl = 0

SpecExits == InitExits /\ [][NextRules]_vars

----------------------------------------------------------------------------
(* The exit verdict of the market intelligence (market-intelligence.js     *)
(* 268-346).  What _detectRegime, _measureExhaustion, _calculateVWAP,      *)
(* _analyzeMomentumQuality and the pattern detectors find in the price     *)
(* history is the input.  Confidences, levels and qualities are in         *)
(* hundredths, unrealized and peakGain in tenths of a cent.  In the        *)
(* specification of the verdict alone loc holds the call's input and what  *)
(* analyzeExit returned for it.                                            *)

MIN_HISTORY == 30
MIN_CHART_HISTORY == 60

SideDir(side) == IF side = "UP" THEN 1 ELSE -1

(* analyzeChart over the patterns found: the hold and exit signals and the *)
(* highest confidence                                                      *)
AnalyzeChart(histLen, patterns, side) ==
    IF histLen < MIN_CHART_HISTORY
    THEN [patterns |-> 0, holdSignal |-> FALSE, exitSignal |-> FALSE,
          confidence |-> 0]
    ELSE [patterns |-> Len(patterns),
          holdSignal |-> \E k \in 1..Len(patterns) :
                            /\ patterns[k].direction = SideDir(side)
                            /\ patterns[k].confidence > 50,
          exitSignal |-> \E k \in 1..Len(patterns) :
                            /\ patterns[k].direction = -SideDir(side)
                            /\ patterns[k].confidence > 60,
          confidence |-> IF patterns = <<>> THEN 0
                         ELSE CHOOSE c \in {patterns[k].confidence : k \in 1..Len(patterns)} :
                                \A k \in 1..Len(patterns) : patterns[k].confidence <= c]

(* steps 1-5 of analyzeExit: each indicator in turn may set holdThrough or *)
(* exitNow and overwrites reason                                           *)
Indicators(in) ==
    LET trendType == IF in.side = "UP" THEN "TRENDING_UP" ELSE "TRENDING_DOWN"
        againstType == IF in.side = "UP" THEN "TRENDING_DOWN" ELSE "TRENDING_UP"
        pullback == /\ in.regimeType = trendType /\ in.regimeConf > 50
                    /\ in.unrealized > -20 /\ in.peakGain > 10 /\ in.quality > 40
        exhausted == /\ in.exhaustionLevel > 60
                     /\ in.exhaustionDir = SideDir(in.side) /\ in.unrealized > 0
        regimeFlip == in.regimeType = againstType /\ in.regimeConf > 60
        vwapBack == in.vwapDev < 50 /\ in.unrealized > 0
        dying == in.quality < 20 /\ in.decelerating /\ in.unrealized < 0
    IN [holdThrough |-> pullback,
        exitNow |-> exhausted \/ regimeFlip \/ vwapBack \/ dying,
        reason |-> IF dying THEN "momentum-dying"
                   ELSE IF vwapBack THEN "vwap-mean-reversion-target"
                   ELSE IF regimeFlip THEN "regime-changed-against-us"
                   ELSE IF exhausted THEN "exhaustion-take-profit"
                   ELSE IF pullback THEN "healthy-pullback"
                   ELSE ""]

(* step 6 of analyzeExit: the chart's exit and hold signals *)
ChartStep(ind, chart) ==
    LET exits == chart.patterns > 0 /\ chart.exitSignal /\ chart.confidence > 55
        holds == chart.patterns > 0 /\ chart.holdSignal /\ chart.confidence > 45
    IN [holdThrough |-> ind.holdThrough \/ holds,
        exitNow |-> ind.exitNow \/ exits,
        reason |-> IF exits THEN "chart-exit"
                   ELSE IF holds /\ ind.reason = "" THEN "chart-hold"
                   ELSE ind.reason]

AnalyzeExit(in) ==
    IF in.histLen < MIN_HISTORY
    THEN [holdThrough |-> FALSE, exitNow |-> FALSE, reason |-> "",
          chart |-> AnalyzeChart(0, <<>>, in.side)]
    ELSE LET chart == AnalyzeChart(in.histLen, in.patterns, in.side)
         IN [chart |-> chart] @@ ChartStep(Indicators(in), chart)

ChartPatterns == [direction : {-1, 1}, confidence : {55, 70}]

(* no pattern, one, or two (each pair once) *)
PatternLists ==
    {<<>>} \cup {<<p>> : p \in ChartPatterns}
    \cup {pq \in ChartPatterns \X ChartPatterns :
            \/ pq[2].direction > pq[1].direction
            \/ /\ pq[2].direction = pq[1].direction
               /\ pq[2].confidence >= pq[1].confidence}

MiInputs ==
    {in \in [histLen : {10, 40, 60}, side : {"UP", "DOWN"},
             regimeType : {"TRENDING_UP", "TRENDING_DOWN", "RANGING"},
             regimeConf : {55, 70}, exhaustionLevel : {50, 70},
             exhaustionDir : {-1, 1}, vwapDev : {30, 80}, quality : {10, 50},
             decelerating : BOOLEAN, unrealized : {-30, 0, 20},
             peakGain : {0, 20}, patterns : PatternLists] :
        /\ in.exhaustionLevel = 50 => in.exhaustionDir = 1
        /\ in.quality = 50 => ~in.decelerating
        /\ in.peakGain >= in.unrealized}

NoVerdict == [holdThrough |-> FALSE, exitNow |-> FALSE, reason |-> "none"]

InitMi ==
    /\ running = TRUE
    /\ live = FALSE
    /\ markets = {}
    /\ ticking = FALSE
    /\ entryLock = FALSE
    /\ bankroll = STARTING_BANKROLL
    /\ positions = <<>>
    /\ history = <<>>
    /\ orders = <<>>
    /\ pc = [h \in Handlers |-> "idle"]
    /\ \E in \in MiInputs : loc = [in |-> in, answered |-> FALSE,
                                   verdict |-> NoVerdict]
    /\ failures = 0
    /\ cooling = FALSE
    /\ dailyPnl = 0

(* _managePositions asks for the verdict on a position *)
AnalyzeExitCall ==
    /\ ~loc.answered
    /\ loc' = [loc EXCEPT !.answered = TRUE, !.verdict = AnalyzeExit(loc.in)]
    /\ UNCHANGED <<running, live, markets, ticking, entryLock, bankroll,
                   positions, history, orders, pc, failures, cooling, dailyPnl>>

NextMi == AnalyzeExitCall

SpecMi == InitMi /\ [][NextMi]_vars

----------------------------------------------------------------------------
(* Bet sizing of the automated entries (scalper.js 1210-1236, 2153-2172,   *)
(* 2441-2444).  Convictions and tier percentages are in hundredths.  In    *)
(* the specification of the sizing alone loc holds what the entry is sized *)
(* for and the stake that came out.                                        *)

MAX_5M_BET == 200

BET_TIERS ==
    <<[name |-> "SCOUT", minConv |-> 0, maxConv |-> 30, pctMin |-> 0,
       pctMax |-> 0, fixed |-> PROBE_SIZE],
      [name |-> "SMALL", minConv |-> 30, maxConv |-> 50, pctMin |-> 15,
       pctMax |-> 35, fixed |-> 0],
      [name |-> "MEDIUM", minConv |-> 50, maxConv |-> 70, pctMin |-> 35,
       pctMax |-> 60, fixed |-> 0],
      [name |-> "HIGH", minConv |-> 70, maxConv |-> 85, pctMin |-> 60,
       pctMax |-> 85, fixed |-> 0],
      [name |-> "AGGRESSIVE", minConv |-> 85, maxConv |-> 95, pctMin |-> 85,
       pctMax |-> 98, fixed |-> 0],
      [name |-> "ALL-IN", minConv |-> 95, maxConv |-> 100, pctMin |-> 90,
       pctMax |-> 98, fixed |-> 0]>>

(* the first tier whose band holds the conviction, the last one from 0.95 *)
TierOf(conviction) ==
    IF conviction >= 95 THEN BET_TIERS[Len(BET_TIERS)]
    ELSE LET fits == {k \in 1..Len(BET_TIERS) :
                        /\ conviction >= BET_TIERS[k].minConv
                        /\ conviction < BET_TIERS[k].maxConv}
         IN IF fits = {} THEN BET_TIERS[1]
            ELSE BET_TIERS[CHOOSE k \in fits : \A j \in fits : k <= j]

(* _calculateBetSize: the tier's fixed stake, or the bankroll times the    *)
(* percentage interpolated over the tier's band; floored at $1 and capped  *)
(* at 98% of the bankroll, the floor last                                  *)
CalculateBetSize(conviction) ==
    LET tier == TierOf(conviction)
        range == tier.maxConv - tier.minConv
        tierBet == IF tier.fixed > 0 THEN tier.fixed
                   ELSE RoundDiv(bankroll * (tier.pctMin * range
                                   + (conviction - tier.minConv)
                                     * (tier.pctMax - tier.pctMin)),
                                 100 * range)
    IN Max(PROBE_SIZE, Min(tierBet, RoundDiv(bankroll * 98, 100)))

(* lines 2157-2160: in high volatility a bet above the scout tier is halved *)
VolReduced(bet, conviction, highVol) ==
    IF highVol /\ TierOf(conviction).name # "SCOUT"
    THEN Max(PROBE_SIZE, RoundDiv(bet, 2)) ELSE bet

TfBetCap(tf) == IF tf = "5m" THEN MAX_5M_BET ELSE MAX_SINGLE_BET

(* lines 2162-2172 with one open slot: the share cap, the timeframe cap,   *)
(* then the $1 floor                                                       *)
ScanBetSizeOn(tf, raw) ==
    Max(PROBE_SIZE, Min(Min(raw, RoundDiv(bankroll * 98, 100)), TfBetCap(tf)))

ScanStake(conviction, highVol, tf) ==
    ScanBetSizeOn(tf, VolReduced(CalculateBetSize(conviction), conviction, highVol))

BetBankrolls == {100, 101, 102, 250, 825, 2000}
Convictions == {20, 40, 60, 80, 90, 97}

InitBets ==
    /\ running = TRUE
    /\ live = FALSE
    /\ markets = {}
    /\ ticking = TRUE
    /\ entryLock = FALSE
    /\ bankroll \in BetBankrolls
    /\ positions = <<>>
    /\ history = <<>>
    /\ orders = <<>>
    /\ pc = [h \in Handlers |-> IF h = "full" THEN "scan" ELSE "idle"]
    /\ \E c \in Convictions, hv \in BOOLEAN, tf \in Timeframes :
          loc = [conviction |-> c, highVol |-> hv, tf |-> tf, path |-> "none",
                 bet |-> 0]
    /\ failures = 0
    /\ cooling = FALSE
    /\ dailyPnl = 0

(* _scanEntries sizes the entry on the market it picked *)
ScanSizing ==
    /\ loc.path = "none"
    /\ bankroll >= PROBE_SIZE
    /\ loc' = [loc EXCEPT !.path = "scan",
                          !.bet = ScanStake(loc.conviction, loc.highVol, loc.tf)]
    /\ UNCHANGED <<running, live, markets, ticking, entryLock, bankroll,
                   positions, history, orders, pc, failures, cooling, dailyPnl>>

(* _autoEntryDailyInner sizes the entry on the daily market; a stake under *)
(* $1 ends the attempt                                                     *)
AutoSizing ==
    /\ loc.path = "none"
    /\ loc.tf = "1d"
    /\ bankroll >= PROBE_SIZE
    /\ AutoBetSize >= PROBE_SIZE
    /\ loc' = [loc EXCEPT !.path = "auto", !.bet = AutoBetSize]
    /\ UNCHANGED <<running, live, markets, ticking, entryLock, bankroll,
                   positions, history, orders, pc, failures, cooling, dailyPnl>>

NextBets == ScanSizing \/ AutoSizing

SpecBets == InitBets /\ [][NextBets]_vars

----------------------------------------------------------------------------
(* Streaming feeds: BinanceWS (binance-ws.js), its multi-endpoint variant  *)
(* and ChainlinkWS.  loc = [feed, ws, connected, reconnects,               *)
(* reconnectTimer, timers, delay, prevDelay, endpointIdx,                  *)
(* consecutiveFails, geoBlocked]; delays in milliseconds.                  *)

MaxReconnects == 11

RECONNECT_MAX == 30000
GEO_BLOCK_THRESHOLD == 3

Feeds == {"binance", "binanceMulti", "chainlink"}

RECONNECT_BASE(feed) == IF feed = "chainlink" THEN 2000 ELSE 1000

Endpoints == 0..2

RECURSIVE Pow(_, _)
Pow(b, e) == IF e = 0 THEN 1 ELSE b * Pow(b, e - 1)

(* Math.min(reconnectDelay * Math.pow(1.5, n - 1), RECONNECT_MAX); the     *)
(* timer takes whole milliseconds                                          *)
BackoffDelay_Uncapped(base, n) == (base * Pow(3, n - 1)) \div Pow(2, n - 1)

BackoffDelay(base, n) ==
    Min((base * Pow(3, n - 1)) \div Pow(2, n - 1), RECONNECT_MAX)

InitFeed ==
    /\ running = TRUE
    /\ live = FALSE
    /\ markets = {}
    /\ ticking = FALSE
    /\ entryLock = FALSE
    /\ bankroll = STARTING_BANKROLL
    /\ positions = <<>>
    /\ history = <<>>
    /\ orders = <<>>
    /\ pc = [h \in Handlers |-> "idle"]
    /\ \E f \in Feeds :
          loc = [feed |-> f, ws |-> "none", connected |-> FALSE,
                 reconnects |-> 0, reconnectTimer |-> FALSE, timers |-> 0,
                 delay |-> 0, prevDelay |-> 0, endpointIdx |-> 0,
                 consecutiveFails |-> 0, geoBlocked |-> {}]
    /\ failures = 0
    /\ cooling = FALSE
    /\ dailyPnl = 0

(* connect(): the previous socket, if any, is closed already; a new one    *)
(* starts connecting                                                       *)
Connect(l) == [l EXCEPT !.ws = "connecting"]

(* startup calls connect() once *)
FeedStart ==
    /\ loc.ws = "none"
    /\ loc' = Connect(loc)
    /\ UNCHANGED <<running, live, markets, ticking, entryLock, bankroll,
                   positions, history, orders, pc, failures, cooling, dailyPnl>>

(* ws.on("open") *)
FeedOpen ==
    /\ loc.ws = "connecting"
    /\ loc' = [loc EXCEPT !.ws = "open", !.connected = TRUE,
                          !.reconnects = 0, !.consecutiveFails = 0]
    /\ UNCHANGED <<running, live, markets, ticking, entryLock, bankroll,
                   positions, history, orders, pc, failures, cooling, dailyPnl>>

(* _switchEndpoint(): next endpoint not known to be blocked, or clear the  *)
(* set and cycle when all are blocked                                      *)
SwitchEndpoint(l) ==
    LET blocked == l.geoBlocked \cup {l.endpointIdx}
        cand(i) == (l.endpointIdx + 1 + i) % 3
        free == {i \in 0..2 : cand(i) \notin blocked}
    IN  IF free # {}
        THEN [l EXCEPT !.geoBlocked = blocked,
                       !.endpointIdx =
                           cand(CHOOSE i \in free : \A j \in free : i <= j),
                       !.consecutiveFails = 0]
        ELSE [l EXCEPT !.geoBlocked = {},
                       !.endpointIdx = (l.endpointIdx + 1) % 3,
                       !.consecutiveFails = 0]

(* ws.on("error") with a 451/403 message on the multi-endpoint client; the *)
(* close event follows                                                     *)
FeedGeoError ==
    /\ loc.ws = "connecting"
    /\ loc.feed = "binanceMulti"
    /\ loc' = IF loc.consecutiveFails + 1 >= GEO_BLOCK_THRESHOLD
              THEN [SwitchEndpoint(loc) EXCEPT !.ws = "failing"]
              ELSE [loc EXCEPT !.consecutiveFails = @ + 1, !.ws = "failing"]
    /\ UNCHANGED <<running, live, markets, ticking, entryLock, bankroll,
                   positions, history, orders, pc, failures, cooling, dailyPnl>>

(* _scheduleReconnect() *)
ScheduleReconnect(l) ==
    IF l.reconnectTimer
    THEN l
    ELSE [l EXCEPT !.reconnects = @ + 1,
                   !.prevDelay = IF l.reconnects = 0 THEN 0 ELSE l.delay,
                   !.delay = BackoffDelay(RECONNECT_BASE(l.feed),
                                          l.reconnects + 1),
                   !.reconnectTimer = TRUE,
                   !.timers = @ + 1]

(* ws.on("close"): the socket failed to connect or an open one dropped *)
FeedClose ==
    /\ loc.ws \in {"connecting", "failing", "open"}
    /\ loc.reconnects < MaxReconnects
    /\ loc' = ScheduleReconnect([loc EXCEPT !.ws = "closed",
                                            !.connected = FALSE])
    /\ UNCHANGED <<running, live, markets, ticking, entryLock, bankroll,
                   positions, history, orders, pc, failures, cooling, dailyPnl>>

(* the reconnect timer fires: reconnectTimer = null; connect() *)
FeedTimer ==
    /\ loc.timers > 0
    /\ loc' = Connect([loc EXCEPT !.reconnectTimer = FALSE,
                                  !.timers = @ - 1])
    /\ UNCHANGED <<running, live, markets, ticking, entryLock, bankroll,
                   positions, history, orders, pc, failures, cooling, dailyPnl>>

NextFeed == FeedStart \/ FeedOpen \/ FeedGeoError \/ FeedClose \/ FeedTimer

SpecFeed == InitFeed /\ [][NextFeed]_vars

----------------------------------------------------------------------------
(* Flip cooldown: MarketIntelligence.recordExit / canReenter and the three *)
(* entry paths.  loc = [clock, open, recentExits, closedAt, entered];      *)
(* times in seconds, -1 for no entry in a map.                             *)

MaxReentryClock == 140

FLIP_COOLDOWN == 45
EXIT_MEMORY == 120

ReentryMarkets == {"1h", "1d"}
ReentryWaits == {20, 50}

NoEntry == [market |-> "none", path |-> "none", sinceExit |-> -1]

(* recordExit(conditionId): stamp the market, drop stamps older than 2 min *)
RecordExit(recent, m, now) ==
    [k \in ReentryMarkets |->
        IF k = m THEN now
        ELSE IF recent[k] # -1 /\ recent[k] < now - EXIT_MEMORY THEN -1
        ELSE recent[k]]

(* canReenter(conditionId) *)
CanReenter(recent, m, now) ==
    \/ recent[m] = -1
    \/ now - recent[m] > FLIP_COOLDOWN

InitReentry ==
    /\ running = TRUE
    /\ live = FALSE
    /\ markets = ReentryMarkets
    /\ ticking = FALSE
    /\ entryLock = FALSE
    /\ bankroll = STARTING_BANKROLL
    /\ positions = <<>>
    /\ history = <<>>
    /\ orders = <<>>
    /\ pc = [h \in Handlers |-> "idle"]
    /\ loc = [clock |-> 1, open |-> {},
              recentExits |-> [k \in ReentryMarkets |-> -1],
              closedAt |-> [k \in ReentryMarkets |-> -1],
              entered |-> NoEntry]
    /\ failures = 0
    /\ cooling = FALSE
    /\ dailyPnl = 0

Entered(m, path) ==
    [market |-> m, path |-> path,
     sinceExit |-> IF loc.closedAt[m] = -1 THEN -1
                   ELSE loc.clock - loc.closedAt[m]]

(* time passes between ticks *)
ReentryWait ==
    /\ \E dt \in ReentryWaits :
          /\ loc.clock + dt <= MaxReentryClock
          /\ loc' = [loc EXCEPT !.clock = @ + dt]
    /\ UNCHANGED <<running, live, markets, ticking, entryLock, bankroll,
                   positions, history, orders, pc, failures, cooling, dailyPnl>>

(* the close loop of _managePositions settles a position and records the   *)
(* exit of its market                                                      *)
ReentryClose ==
    /\ \E m \in loc.open :
          loc' = [loc EXCEPT !.open = @ \ {m},
                             !.recentExits = RecordExit(@, m, loc.clock),
                             !.closedAt[m] = loc.clock]
    /\ UNCHANGED <<running, live, markets, ticking, entryLock, bankroll,
                   positions, history, orders, pc, failures, cooling, dailyPnl>>

(* _scanEntries: a market with a signal, no position on it, the flip       *)
(* cooldown elapsed                                                        *)
ReentryScan ==
    /\ Cardinality(loc.open) < MAX_POSITIONS
    /\ \E m \in ReentryMarkets \ loc.open :
          /\ CanReenter(loc.recentExits, m, loc.clock)
          /\ loc' = [loc EXCEPT !.open = @ \cup {m},
                                !.entered = Entered(m, "scan")]
    /\ UNCHANGED <<running, live, markets, ticking, entryLock, bankroll,
                   positions, history, orders, pc, failures, cooling, dailyPnl>>

(* _autoEntryDailyInner: the daily market, no position on it *)
ReentryAuto ==
    /\ Cardinality(loc.open) < MAX_POSITIONS
    /\ "1d" \notin loc.open
    /\ loc' = [loc EXCEPT !.open = @ \cup {"1d"},
                          !.entered = Entered("1d", "auto")]
    /\ UNCHANGED <<running, live, markets, ticking, entryLock, bankroll,
                   positions, history, orders, pc, failures, cooling, dailyPnl>>

(* manualTrade: the market first in tfPriority *)
ReentryManual ==
    /\ "1d" \notin loc.open
    /\ loc' = [loc EXCEPT !.open = @ \cup {"1d"},
                          !.entered = Entered("1d", "manual")]
    /\ UNCHANGED <<running, live, markets, ticking, entryLock, bankroll,
                   positions, history, orders, pc, failures, cooling, dailyPnl>>

NextReentry ==
    ReentryWait \/ ReentryClose \/ ReentryScan \/ ReentryAuto \/ ReentryManual

SpecReentry == InitReentry /\ [][NextReentry]_vars

----------------------------------------------------------------------------
(* Coalescing of feed observations in _updateRealPrices, in milliseconds.  *)
(* loc = [clock, hist, seen]; each buffer entry carries, beside price, vol *)
(* and ts, the arrival time of the first observation it absorbed (first)   *)
(* and how many it absorbed (n).                                           *)

MaxFeedClock == 1800

COALESCE_MS == 500
PRICE_BUFFER == 7200

FeedGaps == {300, 600}
FeedVols == {0, 5}

InitCoalesce ==
    /\ running = TRUE
    /\ live = FALSE
    /\ markets = {}
    /\ ticking = FALSE
    /\ entryLock = FALSE
    /\ bankroll = STARTING_BANKROLL
    /\ positions = <<>>
    /\ history = <<>>
    /\ orders = <<>>
    /\ pc = [h \in Handlers |-> "idle"]
    /\ loc = [clock |-> 0, hist |-> <<>>, seen |-> 0]
    /\ failures = 0
    /\ cooling = FALSE
    /\ dailyPnl = 0

(* the body of _updateRealPrices for one asset at time now *)
Coalesced(hist, price, vol, now) ==
    LET last == Len(hist)
        added ==
            IF last > 0 /\ now - hist[last].ts < COALESCE_MS
            THEN [hist EXCEPT ![last].price = price,
                              ![last].vol = @ + vol,
                              ![last].ts = now,
                              ![last].n = @ + 1]
            ELSE Append(hist, [price |-> price, vol |-> vol, ts |-> now,
                               first |-> now, n |-> 1])
    IN  IF Len(added) > PRICE_BUFFER
        THEN SubSeq(added, Len(added) - PRICE_BUFFER + 1, Len(added))
        ELSE added

(* the feed delivers an observation gap ms after the previous one *)
FeedObservation ==
    /\ \E gap \in FeedGaps, price \in FeedPrices, vol \in FeedVols :
          /\ loc.clock + gap <= MaxFeedClock
          /\ loc' = [clock |-> loc.clock + gap,
                     hist |-> Coalesced(loc.hist, price, vol, loc.clock + gap),
                     seen |-> loc.seen + 1]
    /\ UNCHANGED <<running, live, markets, ticking, entryLock, bankroll,
                   positions, history, orders, pc, failures, cooling, dailyPnl>>

NextCoalesce == FeedObservation

SpecCoalesce == InitCoalesce /\ [][NextCoalesce]_vars

----------------------------------------------------------------------------
(* FiveMinScalper (five-min-scalper.js).  loc = [now, state, busy, stage,  *)
(* next, firstPrice, position, lastTradeWindow, stats, buyWindow,          *)
(* buysInWindow]; times in seconds, money in cents.  buyWindow and         *)
(* buysInWindow record the window of the last buyShares call and how many  *)
(* calls that window has seen.                                             *)

MaxFiveClock == 700

TRADE_SIZE == 110
MAX_BANKROLL == 200
WINDOW_SECS == 300
WATCH_START == 60
ENTRY_TRIGGER == 30
HOLD_DEADLINE == 15

FiveWaits == {3, 10, 60}
FiveBalances == {100, 150, 250}
BtcPrices == {100000, 100020, 100050}

NoPosition == [held |-> FALSE, side |-> "none", sell |-> FALSE, windowEnd |-> 0]

WindowStart(now) == (now \div WINDOW_SECS) * WINDOW_SECS

SecsLeft(now) == WindowStart(now) + WINDOW_SECS - now

(* Math.abs(delta) < MIN_BTC_MOVE, delta = (last - first) / first, 0.03% *)
SmallMove(first, last) ==
    LET d == IF last >= first THEN last - first ELSE first - last
    IN  d * 10000 < 3 * first

InitFive ==
    /\ running = TRUE
    /\ live = TRUE
    /\ markets = {"5m"}
    /\ ticking = FALSE
    /\ entryLock = FALSE
    /\ bankroll = STARTING_BANKROLL
    /\ positions = <<>>
    /\ history = <<>>
    /\ orders = <<>>
    /\ pc = [h \in Handlers |-> "idle"]
    /\ loc = [now |-> 200, state |-> "IDLE", busy |-> FALSE, stage |-> "none",
              next |-> 0, firstPrice |-> 0, position |-> NoPosition,
              lastTradeWindow |-> 0,
              stats |-> [wins |-> 0, losses |-> 0, trades |-> 0],
              buyWindow |-> -1, buysInWindow |-> 0]
    /\ failures = 0
    /\ cooling = FALSE
    /\ dailyPnl = 0

(* time passes, between ticks or while a tick waits on the order client *)
FiveWait ==
    /\ \E dt \in FiveWaits :
          /\ loc.now + dt <= MaxFiveClock
          /\ loc' = [loc EXCEPT !.now = @ + dt]
    /\ UNCHANGED <<running, live, markets, ticking, entryLock, bankroll,
                   positions, history, orders, pc, failures, cooling, dailyPnl>>

(* the watch window of _tickIdle with its lower bound left out *)
InWatchWindow_NoLowerBound(secsLeft) == secsLeft <= WATCH_START

(* secsLeft <= WATCH_START && secsLeft > ENTRY_TRIGGER *)
InWatchWindow(secsLeft) == secsLeft <= WATCH_START /\ secsLeft > ENTRY_TRIGGER

(* tick() in state IDLE: _tickIdle *)
FiveTickIdle ==
    /\ ~loc.busy
    /\ loc.state = "IDLE"
    /\ \E bal \in FiveBalances, price \in BtcPrices :
          IF \/ loc.lastTradeWindow >= WindowStart(loc.now) + WINDOW_SECS
             \/ bal < TRADE_SIZE \/ bal > MAX_BANKROLL
             \/ ~InWatchWindow(SecsLeft(loc.now))
          THEN UNCHANGED loc
          ELSE loc' = [loc EXCEPT !.state = "WATCHING", !.firstPrice = price]
    /\ UNCHANGED <<running, live, markets, ticking, entryLock, bankroll,
                   positions, history, orders, pc, failures, cooling, dailyPnl>>

(* what a skipped or failed entry leaves: IDLE, the cycle marked as traded *)
Skipped(l, next) ==
    [l EXCEPT !.state = "IDLE", !.lastTradeWindow = next, !.firstPrice = 0]

(* the state the catch block of _enter restores, left out *)
AfterEntryError_Unhandled(l) == [l EXCEPT !.firstPrice = 0]

(* catch (e) in _enter: this.state = IDLE, lastTradeWindow untouched *)
AfterEntryError(l) == [l EXCEPT !.state = "IDLE", !.firstPrice = 0]

(* one call of clobClient.buyShares in the window of now *)
CountBuy(l) ==
    LET w == WindowStart(l.now)
    IN  [l EXCEPT !.buyWindow = w,
                  !.buysInWindow = IF l.buyWindow = w THEN @ + 1 ELSE 1]

(* tick() in state WATCHING: _tickWatching, _enter and _executeBuy up to   *)
(* the wait for the fill                                                   *)
FiveTickWatching ==
    /\ ~loc.busy
    /\ loc.state = "WATCHING"
    /\ LET next == WindowStart(loc.now) + WINDOW_SECS
           entering == [loc EXCEPT !.state = "ENTERING"]
       IN IF SecsLeft(loc.now) > ENTRY_TRIGGER
          THEN UNCHANGED loc
          ELSE \E last \in BtcPrices :
                 IF SmallMove(loc.firstPrice, last)
                 THEN loc' = Skipped(loc, next)
                 ELSE \/ \* no market with > 60 s left, or the token costs > 0.60
                         loc' = Skipped(entering, next)
                      \/ \* an exception before the order is placed
                         loc' = AfterEntryError(entering)
                      \/ \* buyShares answers success: false
                         loc' = Skipped(CountBuy(entering), next)
                      \/ \* buyShares placed the order; _sleep(3000)
                         loc' = [CountBuy(entering) EXCEPT
                                    !.busy = TRUE, !.stage = "buyPlaced",
                                    !.next = next,
                                    !.position.side =
                                        IF last > loc.firstPrice THEN "DOWN"
                                        ELSE "UP"]
    /\ UNCHANGED <<running, live, markets, ticking, entryLock, bankroll,
                   positions, history, orders, pc, failures, cooling, dailyPnl>>

(* _executeBuy after the wait: verifyOrder, then the profit-target sell;   *)
(* tick()'s finally clears _busy                                           *)
FiveBuyOutcome ==
    /\ loc.stage = "buyPlaced"
    /\ LET done == [loc EXCEPT !.busy = FALSE, !.stage = "none", !.next = 0,
                               !.position = NoPosition]
       IN \/ \* not matched: cancelOrder
             loc' = Skipped(done, loc.next)
          \/ \* an exception after the order was placed
             loc' = AfterEntryError(done)
          \/ \* matched: sellShares placed or failed
             \E sold \in BOOLEAN :
                loc' = [done EXCEPT
                          !.position = [held |-> TRUE,
                                        side |-> loc.position.side,
                                        sell |-> sold,
                                        windowEnd |-> loc.next + WINDOW_SECS],
                          !.lastTradeWindow = loc.next,
                          !.state = "HOLDING",
                          !.firstPrice = 0,
                          !.stats.trades = @ + 1]
    /\ UNCHANGED <<running, live, markets, ticking, entryLock, bankroll,
                   positions, history, orders, pc, failures, cooling, dailyPnl>>

(* tick() in state HOLDING: _tickHolding *)
FiveTickHolding ==
    /\ ~loc.busy
    /\ loc.state = "HOLDING"
    /\ IF ~loc.position.held
       THEN loc' = [loc EXCEPT !.state = "IDLE"]
       ELSE \E filled \in BOOLEAN :
              IF loc.position.sell /\ filled
              THEN loc' = [loc EXCEPT !.stats.wins = @ + 1,
                                      !.position = NoPosition,
                                      !.state = "IDLE"]
              ELSE IF loc.position.windowEnd - loc.now <= HOLD_DEADLINE
              THEN loc' = [loc EXCEPT !.position = NoPosition,
                                      !.state = "IDLE"]
              ELSE UNCHANGED loc
    /\ UNCHANGED <<running, live, markets, ticking, entryLock, bankroll,
                   positions, history, orders, pc, failures, cooling, dailyPnl>>

NextFive ==
    \/ FiveWait
    \/ FiveTickIdle
    \/ FiveTickWatching
    \/ FiveBuyOutcome
    \/ FiveTickHolding

SpecFive == InitFive /\ [][NextFive]_vars

----------------------------------------------------------------------------
(* The Scalper's log buffers: logs (kept for the dashboard, capped) and    *)
(* _logQueue (entries awaiting the telemetry batch push).  loc =           *)
(* [connected, logs, logQueue, sinceFlush]: the two lengths and the number *)
(* of log() calls since the flush timer last fired.                        *)

MaxQueued == 205
MaxLogsPerFlush == 3

MAX_LOGS == 200

InitLogs ==
    /\ running = TRUE
    /\ live = FALSE
    /\ markets = {}
    /\ ticking = FALSE
    /\ entryLock = FALSE
    /\ bankroll = STARTING_BANKROLL
    /\ positions = <<>>
    /\ history = <<>>
    /\ orders = <<>>
    /\ pc = [h \in Handlers |-> "idle"]
    /\ \E c \in BOOLEAN :
          loc = [connected |-> c, logs |-> 0, logQueue |-> 0, sinceFlush |-> 0]
    /\ failures = 0
    /\ cooling = FALSE
    /\ dailyPnl = 0

(* log(type, msg): push to logs, trimmed to MAX_LOGS, and to _logQueue *)
Log ==
    /\ loc.sinceFlush < MaxLogsPerFlush
    /\ loc.logQueue < MaxQueued
    /\ loc' = [loc EXCEPT !.logs = Min(@ + 1, MAX_LOGS),
                          !.logQueue = @ + 1,
                          !.sinceFlush = @ + 1]
    /\ UNCHANGED <<running, live, markets, ticking, entryLock, bankroll,
                   positions, history, orders, pc, failures, cooling, dailyPnl>>

(* the 3 s flush timer of startLoops: nothing when the backend is not      *)
(* connected or the queue is empty, else the whole queue is taken          *)
FlushLogs ==
    /\ loc.sinceFlush > 0
    /\ loc' = [loc EXCEPT !.logQueue = IF ~loc.connected \/ loc.logQueue = 0
                                       THEN @ ELSE 0,
                          !.sinceFlush = 0]
    /\ UNCHANGED <<running, live, markets, ticking, entryLock, bankroll,
                   positions, history, orders, pc, failures, cooling, dailyPnl>>

(* the dashboard's reset and CLEAR_LOGS: scalper.logs = [] *)
ClearLogs ==
    /\ loc.logs > 0
    /\ loc.sinceFlush = 0
    /\ loc' = [loc EXCEPT !.logs = 0]
    /\ UNCHANGED <<running, live, markets, ticking, entryLock, bankroll,
                   positions, history, orders, pc, failures, cooling, dailyPnl>>

NextLogs == Log \/ FlushLogs \/ ClearLogs

SpecLogs == InitLogs /\ [][NextLogs]_vars

----------------------------------------------------------------------------
(* Properties *)

InTick(t) == pc[t] # "idle"

PosIn(seq, o) == \E i \in 1..Len(seq) : seq[i].oid = o

(* C1: an exception raised inside a tick is caught at the tick boundary   *)
(* and leaves the re-entrancy guard free, so that the next scheduled tick  *)
(* (fast or full) runs its position management and entry logic.            *)
C1_ExceptionReleasesGuard ==
    [][\A t \in Ticks : Throw(t) => ~ticking']_vars

(* the tick that threw has ended, no tick is running, the guard is set     *)
C1_Stalled ==
    /\ ticking
    /\ \A t \in Ticks : ~InTick(t)

(* C2: at no time are two executions of the critical section (position     *)
(* management and entry scan) in progress across the fast and the full     *)
(* loop: a tick that fires while another runs returns at the guard.        *)
C2_MutualExclusion ==
    /\ ~(InTick("fast") /\ InTick("full"))
    /\ (\E t \in Ticks : InTick(t)) => ticking

(* one loop waits on an order inside its critical section while the other  *)
(* loop's timer can fire                                                   *)
C2_Witness ==
    /\ ticking
    /\ \E t \in Ticks : pc[t] \in {"buyPlaced", "sellPlaced"}
    /\ \E t \in Ticks : pc[t] = "idle"

(* C3: an exit attempt that fails verification never removes the position, *)
(* whatever the exit reason (checked here for the reasons that are not a   *)
(* resolution): the position is back in the open set, bankroll and history *)
(* are as before.                                                          *)
C3_FailedExitKeepsPosition ==
    [][\A t \in Ticks :
          (pc[t] = "sellCancel" /\ pc'[t] # "sellCancel"
             /\ ~isResolution(loc[t].reason))
          => /\ PosIn(positions', loc[t].pos.oid)
             /\ bankroll' = bankroll
             /\ history' = history]_vars

(* a forced exit whose sell was verified unmatched is nevertheless settled *)
C3_PhantomClose ==
    \E i \in 1..Len(history) :
        /\ ~history[i].filled
        /\ history[i].reason = "LIQ-FORCE"
        /\ \E o \in 1..Len(orders) :
              orders[o].kind = "sell" /\ orders[o].ver = "unmatched"

(* C4: at all times a position is in the open set if and only if a         *)
(* verified fill was recorded for its entry order and it has not since     *)
(* been closed (no history record for it).                                 *)
C4_OpenIffVerifiedFill ==
    \A o \in 1..Len(orders) :
        orders[o].kind = "buy" =>
            (PosIn(positions, o) <=>
                (orders[o].ver = "matched" /\ ~PosIn(history, o)))

(* the entry half of C4: every open position rests on a verified fill, and *)
(* an order verified unmatched has no position                             *)
C4_EntryHalf ==
    /\ \A i \in 1..Len(positions) :
          /\ positions[i].oid \in 1..Len(orders)
          /\ orders[positions[i].oid].kind = "buy"
          /\ orders[positions[i].oid].ver = "matched"
    /\ \A o \in 1..Len(orders) :
          orders[o].ver = "unmatched" => ~PosIn(positions, o)

(* C5: after an order is placed, verifyOrder answers before the handler    *)
(* that placed it changes positions, bankroll or history, and an order     *)
(* verified unmatched has cancelOrder called for it.                       *)
C5_MutatesUnverified(h) ==
    /\ loc[h].ord # 0
    /\ orders[loc[h].ord].ver = "none"
    /\ pc'[h] # pc[h]
    /\ <<positions, bankroll, history>>' # <<positions, bankroll, history>>

C5_CancelCalled ==
    \A o \in 1..Len(orders) :
        orders[o].ver = "unmatched" =>
            \/ orders[o].cancelled
            \/ \E h \in Handlers :
                  loc[h].ord = o /\ pc[h] \in {"buyCancel", "sellCancel"}

C6_FilledBuysTracked ==
    \A o \in 1..Len(orders) :
        (orders[o].kind = "buy" /\ orders[o].st = "matched"
            /\ \A h \in Handlers : loc[h].ord # o)
        => orders[o].tracked

(* a buy verified unmatched whose cancel was answered is filled, untracked *)
C6_LostStake ==
    \E o \in 1..Len(orders) :
        /\ orders[o].kind = "buy" /\ orders[o].st = "matched"
        /\ orders[o].ver = "unmatched" /\ orders[o].cancelled
        /\ ~orders[o].tracked

(* C7: every position that leaves the open set is moved to history, and    *)
(* only after a confirmed exit fill or a confirmed resolution.             *)
C7_LeavesOnlySettled ==
    [][\A i \in 1..Len(positions) :
          LET o == positions[i].oid
          IN (~PosIn(positions', o) /\ \A h \in Handlers : loc'[h].pos.oid # o)
             => \E j \in 1..Len(history') :
                   /\ history'[j].oid = o
                   /\ (history'[j].filled \/ isResolution(history'[j].reason))]_vars

(* C8: no two open positions share the same (asset, timeframe) pair.       *)
C8_OnePerMarket ==
    \A i, j \in 1..Len(positions) :
        i # j => positions[i].tf # positions[j].tf

(* C9: the number of open positions never exceeds MAX_POSITIONS.           *)
C9_PositionCap == Len(positions) <= MAX_POSITIONS

(* C10 as stated: bankroll changes only by -costBasis at an open and by    *)
(* +costBasis + realizedPnl at a close.                                    *)
C10_Opened ==
    /\ Len(positions') = Len(positions) + 1
    /\ history' = history

C10_Closed ==
    /\ Len(history') = Len(history) + 1
    /\ bankroll' = bankroll + CostBasis(history'[1]) + history'[1].pnl

C10_Replaced ==
    \/ ~running /\ running' /\ bankroll' \in WalletVals
    \/ /\ pc["full"] \in {"idle", "sync"} /\ pc'["full"] = "body"
       /\ bankroll' \in PoolVals \cup WalletVals
    \/ positions' = <<>> /\ history' = <<>> /\ bankroll' = RESET_BANKROLL

C11_BankrollNonNegative == bankroll >= 0

(* a position whose size was raised by the reconciliation is settled at a  *)
(* loss larger than its cost basis                                         *)
C11_Overdrawn ==
    /\ bankroll < 0
    /\ \E i \in 1..Len(history) : history[i].cost + history[i].pnl < 0

(* the step records a position for order o *)
Opens(o) ==
    /\ o \in 1..Len(orders')
    /\ orders'[o].tracked
    /\ (o > Len(orders) \/ ~orders[o].tracked)

(* C12: an entry whose stake exceeds the current bankroll creates no       *)
(* position, on every entry path and under any interleaving: whenever a    *)
(* position is recorded its cost basis is within the bankroll of that      *)
(* moment.                                                                 *)
C12_StakeWithinBankroll ==
    [][\A o \in 1..MaxOrders :
          Opens(o) => positions'[Len(positions')].cost <= bankroll]_vars
(* two stakes accepted against the same bankroll: together they exceed it *)
C12_Overspent ==
    /\ Len(positions) = 2
    /\ history = << >>
    /\ positions[1].cost + positions[2].cost > STARTING_BANKROLL
    /\ bankroll = 0

(* C13: a buy order reported not matched after the grace delay adds        *)
(* exactly 1 to the execution-failure counter: the step in which           *)
(* _simulateEntry returns null after the cancel raises failures by one.    *)
C13_UnmatchedBuyCountedOnce ==
    [][\A h \in Handlers :
          pc[h] = "buyCancel" /\ pc'[h] # "buyCancel"
             => failures' = failures + 1]_vars

(* C14: after a successful entry no entry path opens another position      *)
(* until the entry cooldown has elapsed: no position is recorded while     *)
(* the cooldown set by the last engine entry is still running.             *)
C14_NoOpenDuringCooldown ==
    [][\A o \in 1..MaxOrders : Opens(o) => ~cooling]_vars

(* handler h has made its checks and awaits an order before it mutates *)
MidSequence(h) ==
    pc[h] \in {"buyPlaced", "buyCancel", "sellPlaced", "sellCancel"}

(* C15: position management, signal scan, auto-entry and manual trade are  *)
(* serialized: at most one handler is between its checks and its mutation  *)
(* of positions and bankroll at any time.                                  *)
C15_Serialized ==
    Cardinality({h \in Handlers : MidSequence(h)}) <= 1

(* a manual trade and a tick's entry both await their buy order *)
C15_Overlap ==
    /\ pc["manual"] = "buyPlaced"
    /\ \E t \in Ticks : pc[t] = "buyPlaced" /\ ticking

(* the daily loss limit is reached or the rolling win rate is below floor *)
Halted == DailyLossHit \/ ~CheckModelHealth

(* the step is taken by one of the two loops *)
EngineStep == \E t \in Ticks : pc'[t] # pc[t] \/ loc'[t] # loc[t]

(* C16: while the daily realized loss has reached the limit, or the        *)
(* rolling win rate is below the floor, neither the signal scan nor the    *)
(* auto-entry records a new position.                                      *)
C16_NoEngineEntryWhileHalted ==
    [][\A o \in 1..MaxOrders :
          Opens(o) /\ EngineStep => ~Halted]_vars

(* a position opened by the engine on a day whose loss limit was reached *)
C16_EnteredWhileHalted ==
    /\ DailyLossHit
    /\ Len(positions) = 1
    /\ cooling
    /\ Len(orders) = 1

(* how many copies of the position opened for order o the engine holds:    *)
(* in the open set, or spliced out by a handler that awaits its exit       *)
Copies(o) ==
    Cardinality({i \in 1..Len(positions) : positions[i].oid = o})
    + Cardinality({h \in Handlers : loc[h].pos.oid = o})

Settlements(o) == Cardinality({i \in 1..Len(history) : history[i].oid = o})

(* C17: a position is closed at most once: it has at most one settlement   *)
(* (bankroll credit and history record), the engine never holds two copies *)
(* of it, and once it is settled it is no longer held, so nothing can      *)
(* resolve it again.                                                       *)
C17_ClosedAtMostOnce ==
    \A o \in 1..MaxOrders :
        /\ Settlements(o) <= 1
        /\ Copies(o) <= 1
        /\ Settlements(o) = 1 => Copies(o) = 0

(* a tick works through its exits after an earlier position was settled *)
C17_Witness ==
    /\ Settlements(1) = 1
    /\ \E t \in Ticks : pc[t] = "close" /\ loc[t].toClose # << >>

(* the fast tick has run the rules over the position it sees through view *)
Judged == pc["fast"] = "close" /\ "view" \in DOMAIN loc["fast"]

View == loc["fast"].view

Selected == IF loc["fast"].toClose = << >> THEN "HOLD"
            ELSE loc["fast"].toClose[1].reason

(* C18: on a tick where an open position's time remaining is <= 0 the      *)
(* position is selected for resolution, at 0.95 when the support estimate  *)
(* favours it and at 0.05 otherwise, before any other rule.                *)
C18_ExpiredIsResolved ==
    Judged /\ View.secsToEnd <= 0
       => loc["fast"].toClose =
             <<IF View.prob > 55
               THEN [index |-> 0, reason |-> "WIN-RESOLVE", exitPrice |-> 95]
               ELSE [index |-> 0, reason |-> "LOSS-RESOLVE", exitPrice |-> 5]>>

(* an expired position the tick had no price for is left open *)
C18_ExpiredLeftOpen ==
    Judged /\ View.secsToEnd <= 0 /\ View.cp = 0 /\ Selected = "HOLD"

(* the tick sees the position at an unrealized loss on a long timeframe *)
LongAtLoss ==
    /\ Judged
    /\ View.cp # 0
    /\ isLongTF(positions[1].tf)
    /\ Unrealized(positions[1], View.cp) < 0

Salvages == {"SALVAGE-SIGMA", "SALVAGE-LAST"}

C19_ForcedAtLoss ==
    /\ LongAtLoss
    /\ View.cp = 35
    /\ View.secsToEnd = 10
    /\ Selected = "LIQ-FORCE"

(* C20: for every position and tick, if peakGain (as the tick has updated  *)
(* it) is at or below the minimum peak-gain threshold of 0.015, neither    *)
(* TRAIL nor TRAIL-WIDE is selected.                                       *)
C20_NoTrailBelowMinPeak ==
    Judged /\ positions[1].peakGain <= 15
       => Selected \notin {"TRAIL", "TRAIL-WIDE"}

(* the trailing rule is reached with a peak of 0.010 and the position     *)
(* below the locked share of that peak: no trailing exit                  *)
C20_Witness ==
    /\ Judged
    /\ View.cp = 50
    /\ View.secsToEnd = 36000
    /\ positions[1].tf = "5m"
    /\ positions[1].peakGain = 10
    /\ Unrealized(positions[1], View.cp) * 100
          < positions[1].peakGain * TRAILING_LOCK_BY_TF("5m")
    /\ Selected \notin {"TRAIL", "TRAIL-WIDE"}

(* the newest sample is older than the 120 s within which _getPriceAtTime  *)
(* accepts a sample                                                        *)
FeedStale ==
    /\ Len(loc.realPrices) > 0
    /\ loc.clock - loc.realPrices[Len(loc.realPrices)].ts > MAX_PRICE_DIST

(* C21: while the asset's feed is stale (no sample for longer than the     *)
(* staleness bound) the signal returned for it is neutral: direction 0 and *)
(* strength 0                                                              *)
C21_StaleFeedIsNeutral ==
    (loc.asked /\ FeedStale) =>
        (loc.signal.direction = 0 /\ loc.signal.strength = 0)

C21_DirectionalOnStaleFeed ==
    /\ loc.asked
    /\ FeedStale
    /\ loc.signal.direction # 0

(* C22: with fewer than three samples, or less than 30 s since the oldest  *)
(* sample, the signal is direction 0 and strength 0                        *)
C22_ColdStartNeutral ==
    (loc.asked /\ (Len(loc.realPrices) < MIN_SAMPLES
                   \/ loc.clock - loc.realPrices[1].ts < MIN_DATA_AGE)) =>
        (loc.signal.direction = 0 /\ loc.signal.strength = 0)

C22_Witness ==
    /\ loc.asked
    /\ loc.signal.direction = 0
    /\ \/ /\ Len(loc.realPrices) = 2
          /\ loc.realPrices[1].price # loc.realPrices[2].price
          /\ loc.clock - loc.realPrices[1].ts >= MIN_DATA_AGE
       \/ /\ Len(loc.realPrices) = 3
          /\ loc.realPrices[1].price # loc.realPrices[3].price
          /\ loc.clock - loc.realPrices[1].ts < MIN_DATA_AGE

(* the position and the view a tick is about to judge *)
Judging == pc["fast"] = "body" /\ "view" \in DOMAIN loc["fast"]

FirstHit(chain) ==
    LET hits == {k \in 1..Len(chain) : chain[k].reason # "PASS"}
    IN IF hits = {} THEN Hold
       ELSE chain[CHOOSE k \in hits : \A j \in hits : k <= j]

(* the ten documented rules in their documented order *)
DocumentedChain(pos, v) ==
    <<RuleResolve(pos, v), RuleHold5m(pos, v), RuleForce(pos, v),
      RuleSalvage(pos, v), RuleHoldGate(pos, v), RuleProfit(pos, v),
      RuleTrail(pos, v), RuleFlip(pos, v), RuleStop(pos, v), RuleStale(pos, v)>>

FullChain(pos, v) ==
    <<RuleResolve(pos, v), RuleHold5m(pos, v), RuleForce(pos, v),
      RuleSalvage(pos, v), RuleLiqSafe(pos, v), RuleHoldGate(pos, v),
      RuleDaily(pos, v), RulePredExit(pos, v), RuleMi(pos, v),
      RuleProfit(pos, v), RuleTrail(pos, v), RuleFlip(pos, v),
      RuleStop(pos, v), RuleStale(pos, v)>>

SlippageOf(unrealized) == (Abs(unrealized) * SLIPPAGE_PENALTY) \div 100

(* the mark-to-market P&L of a closed position at the price it was judged  *)
(* at; every position of this specification was entered at the one price   *)
(* of EntryPrices                                                          *)
MarkToMarket(trade) ==
    LET entry == CHOOSE p \in EntryPrices : TRUE
    IN Pnl(ExitPrice(trade.reason), entry, Shares(CostBasis(trade), entry))

(* C24: the P&L recorded in history (and credited to bankroll) for a       *)
(* position closed by the forced liquidity exit is its mark-to-market P&L  *)
(* reduced by the slippage penalty                                         *)
C24_ForcedExitPaysPenalty ==
    \A i \in 1..Len(history) :
        history[i].reason = "LIQ-FORCE" =>
            history[i].pnl = MarkToMarket(history[i])
                             - SlippageOf(MarkToMarket(history[i]))

C24_SettledWithoutPenalty ==
    \E i \in 1..Len(history) :
        /\ history[i].reason = "LIQ-FORCE"
        /\ SlippageOf(MarkToMarket(history[i])) > 0
        /\ history[i].pnl = MarkToMarket(history[i])
        /\ bankroll = STARTING_BANKROLL + history[i].pnl

(* a long-timeframe position not in profit, judged with a price *)
LongNotInProfit ==
    /\ Judged
    /\ View.cp # 0
    /\ isLongTF(positions[1].tf)
    /\ Unrealized(positions[1], View.cp) <= 0

C26_StopWaitsForLatency ==
    (Judged /\ Selected = "STOP" /\ View.directionMatch)
       => View.latencyElapsed

(* a 5m position 30% under its entry whose underlying is on its side, with *)
(* no latency timer running, is sold on the tick the stop triggers         *)
C26_StoppedAtOnce ==
    /\ Judged
    /\ Selected = "STOP"
    /\ positions[1].tf = "5m"
    /\ View.directionMatch
    /\ Supports(View)
    /\ ~positions[1].latencyHold
    /\ ~View.latencyElapsed

(* the delayed branch of the stop rule is never the one that decides *)
C26_DelayedStopUnreached ==
    (Judged /\ Selected = "STOP") => ~HOLD_THROUGH_DIPS(positions[1].tf)

C27_FlipVetoed ==
    /\ Judged
    /\ positions[1].size = SmallPosition.size
    /\ View.rev /\ View.cp = 51 /\ View.holdAge = 400 /\ Supports(View)
    /\ View.secsToEnd = 3000 /\ ~View.mi.exitNow
    /\ Selected = "HOLD"

C27_FlippedDespiteSupport ==
    /\ Judged
    /\ Selected = "FLIP"
    /\ positions[1].tf = "5m"
    /\ Supports(View)

(* a 1d position judged with a price at a gain of at least 45% of its cost *)
DailyAt45 ==
    /\ Judged
    /\ View.cp # 0
    /\ positions[1].tf = "1d"
    /\ Unrealized(positions[1], View.cp) * 10 >= 45 * CostBasis(positions[1])

C28_HeldNearExpiry ==
    /\ DailyAt45
    /\ View.secsToEnd = 200
    /\ Selected = "HOLD"

ChartExitQualifies ==
    /\ loc.verdict.chart.patterns > 0
    /\ loc.verdict.chart.exitSignal
    /\ loc.verdict.chart.confidence > 55

ChartHoldQualifies ==
    /\ loc.verdict.chart.patterns > 0
    /\ loc.verdict.chart.holdSignal
    /\ loc.verdict.chart.confidence > 45

(* C29: in the exit verdict a chart hold signal above its confidence       *)
(* threshold (with no qualifying chart exit beside it) is never            *)
(* accompanied by exitNow from another indicator, and a chart exit signal  *)
(* above its threshold always yields exitNow with the chart reason         *)
C29_ChartSignalsTakePriority ==
    loc.answered =>
        /\ (ChartHoldQualifies /\ ~ChartExitQualifies) => ~loc.verdict.exitNow
        /\ ChartExitQualifies =>
              (loc.verdict.exitNow /\ loc.verdict.reason = "chart-exit")

(* a continuation pattern in the position's direction, and exitNow all the *)
(* same because the regime turned                                          *)
C29_HoldWithExitNow ==
    /\ loc.answered
    /\ ChartHoldQualifies
    /\ ~ChartExitQualifies
    /\ loc.verdict.holdThrough
    /\ loc.verdict.exitNow
    /\ loc.verdict.reason = "regime-changed-against-us"

(* the second half alone: a qualifying chart exit yields exitNow with the  *)
(* chart reason                                                            *)
C29_ChartExitWins ==
    (loc.answered /\ ChartExitQualifies) =>
        (loc.verdict.exitNow /\ loc.verdict.reason = "chart-exit")

(* C30: the final bet size of every automated entry is at least the venue  *)
(* minimum of $1, at most 98% of the current bankroll (to the cent), and   *)
(* at most the hard cap of its timeframe                                   *)
C30_BetWithinAllBounds ==
    loc.path # "none" =>
        /\ loc.bet >= PROBE_SIZE
        /\ loc.bet <= RoundDiv(bankroll * 98, 100)
        /\ loc.bet <= TfBetCap(loc.tf)

(* a scan entry sized with a bankroll of $1.00 stakes the whole of it *)
C30_WholeBankrollStaked ==
    /\ loc.path = "scan"
    /\ bankroll = PROBE_SIZE
    /\ loc.bet = bankroll

(* from a bankroll of $1.02 up the three bounds hold together *)
C30_BoundsFromOneDollarTwo ==
    (loc.path # "none" /\ bankroll >= 102) =>
        /\ loc.bet >= PROBE_SIZE
        /\ loc.bet <= RoundDiv(bankroll * 98, 100)
        /\ loc.bet <= TfBetCap(loc.tf)


(* C31: reconnection to a streaming feed backs off exponentially with a    *)
(* cap: the delay before the n-th consecutive attempt is the base times    *)
(* 1.5^(n-1), grows with n until it reaches the cap, never exceeds 30 s,   *)
(* the attempt count is zero after a successful connection, and at most    *)
(* one reconnect timer is pending per feed.                                *)
C31_BackoffCappedAndSingle ==
    /\ loc.timers <= 1
    /\ loc.ws = "open" => loc.reconnects = 0
    /\ loc.delay <= RECONNECT_MAX
    /\ loc.reconnects = 1 => loc.delay = RECONNECT_BASE(loc.feed)
    /\ loc.reconnects >= 2 =>
          /\ loc.delay >= loc.prevDelay
          /\ loc.prevDelay < RECONNECT_MAX => loc.delay > loc.prevDelay
          /\ loc.delay < RECONNECT_MAX =>
                /\ 2 * loc.delay <= 3 * loc.prevDelay + 2
                /\ 2 * loc.delay >= 3 * loc.prevDelay - 2

(* the tenth consecutive attempt waits the capped 30 s, after shorter waits *)
C31_Witness ==
    /\ loc.reconnects >= 10
    /\ loc.reconnectTimer
    /\ loc.delay = RECONNECT_MAX
    /\ loc.prevDelay < RECONNECT_MAX


(* C32: every invocation of tick() or fastTick() that set the re-entrancy  *)
(* guard clears it before the invocation completes, on every path: normal  *)
(* completion, every early return and a thrown exception.                  *)
C32_GuardClearedOnEveryPath ==
    [][\A t \in Ticks : (InTick(t) /\ ~InTick(t)') => ~ticking']_vars

(* the guard is set, neither loop is inside an invocation, and no order    *)
(* was ever placed: the invocation that set the guard ended before its     *)
(* position management                                                     *)
C32_GuardLeftSet ==
    /\ running
    /\ ticking
    /\ ~InTick("fast") /\ ~InTick("full")
    /\ orders = <<>>
    /\ positions = <<>> /\ history = <<>>


(* C33: while an exit order for a position is in flight (placed, not yet   *)
(* verified or still being cancelled), the position is in the open set     *)
(* that state reports, persisted snapshots and manual trades see.          *)
C33_OpenWhileExitInFlight ==
    \A t \in Ticks :
        pc[t] \in {"sellPlaced", "sellCancel"} =>
            PosIn(positions, loc[t].pos.oid)

(* the sell order awaits its verification; the position it would close is  *)
(* in neither the open set nor the history a snapshot would record         *)
C33_MissingFromSnapshot ==
    \E t \in Ticks :
        /\ pc[t] = "sellPlaced"
        /\ orders[loc[t].ord].ver = "none"
        /\ ~PosIn(positions, loc[t].pos.oid)
        /\ ~PosIn(history, loc[t].pos.oid)


(* C34: a dashboard reset is atomic with respect to ticks: once it has     *)
(* completed, positions and history are empty and bankroll is the reset    *)
(* value until the next entry, also when a tick had an exit order awaiting *)
(* verification as the reset was issued; that tick's completion leaves     *)
(* all three as the reset set them and ends without error.                 *)
ResetState ==
    /\ positions = <<>>
    /\ history = <<>>
    /\ bankroll = RESET_BANKROLL

C34_ResetSurvivesInFlightExit ==
    [][\A t \in Ticks :
          (pc[t] \in {"sellPlaced", "sellCancel"} /\ ResetState)
          => ResetState']_vars

(* after a reset no entry was made (no position is open, no buy order is   *)
(* pending), yet history holds the exit that was in flight and bankroll is *)
(* the reset value plus that exit's proceeds                               *)
C34_ResetUndoneByExit ==
    /\ positions = <<>>
    /\ Len(history) = 1
    /\ bankroll = RESET_BANKROLL + CostBasis(history[1]) + history[1].pnl
    /\ \A h \in Handlers : pc[h] \notin {"buyPlaced", "buyCancel"}


(* C35: after a position on a market is closed, no entry path opens a new  *)
(* position on that market until the flip cooldown of 45 s has elapsed.    *)
C35_NoEntryDuringCooldown ==
    loc.entered.market # "none" =>
        \/ loc.entered.sinceExit = -1
        \/ loc.entered.sinceExit >= FLIP_COOLDOWN

(* the signal scan alone honours the cooldown *)
C35_ScanHonoursCooldown ==
    loc.entered.path = "scan" =>
        \/ loc.entered.sinceExit = -1
        \/ loc.entered.sinceExit > FLIP_COOLDOWN

(* the daily market is re-entered by the automatic entry in the second its *)
(* position was closed                                                     *)
C35_ReenteredAtOnce ==
    /\ loc.entered.market = "1d"
    /\ loc.entered.path = "auto"
    /\ loc.entered.sinceExit = 0
    /\ "1d" \in loc.open


(* C36: coalescing merges only observations that arrived within the        *)
(* window (under 500 ms) of each other: no buffer entry absorbs             *)
(* observations spanning more than the window, so a feed faster than the   *)
(* window still makes the history grow.                                    *)
C36_EntrySpansAtMostWindow ==
    \A i \in 1..Len(loc.hist) :
        loc.hist[i].ts - loc.hist[i].first < COALESCE_MS

(* five observations 300 ms apart, 1.2 s from first to last, are all in    *)
(* the one buffer entry                                                    *)
C36_HistoryStuck ==
    /\ loc.seen = 5
    /\ Len(loc.hist) = 1
    /\ loc.hist[1].n = 5
    /\ loc.hist[1].ts - loc.hist[1].first = 1200


(* C37: whenever tick() of the FiveMinScalper has returned, the state is   *)
(* IDLE, WATCHING or HOLDING, never ENTERING, and a position is held       *)
(* exactly when the state is HOLDING.                                      *)
C37_StateConsistent ==
    ~loc.busy =>
        /\ loc.state \in {"IDLE", "WATCHING", "HOLDING"}
        /\ loc.position.held <=> loc.state = "HOLDING"

(* a tick has returned to IDLE after an exception hit its entry with the   *)
(* buy order already placed                                                *)
C37_Witness ==
    /\ ~loc.busy
    /\ loc.state = "IDLE"
    /\ loc.buysInWindow = 1
    /\ loc.lastTradeWindow < loc.buyWindow + WINDOW_SECS
    /\ loc.stats.trades = 0

(* C38: the FiveMinScalper places at most one buy order per 5-minute       *)
(* window, whatever the timing of the ticks and the outcome of the buy     *)
(* (failed, unmatched, error, filled).                                     *)
C38_OneBuyPerWindow == loc.buysInWindow <= 1

(* the first window's trade is over and the second window has placed its   *)
(* own single buy                                                          *)
C38_Witness ==
    /\ loc.buyWindow = WINDOW_SECS
    /\ loc.buysInWindow = 1
    /\ loc.stage = "buyPlaced"
    /\ loc.stats.trades = 1

(* C39: every FiveMinScalper trade is accounted as a win or a loss:        *)
(* whenever no position is held, stats.wins + stats.losses equals          *)
(* stats.trades.                                                           *)
C39_TradesAccounted ==
    ~loc.position.held =>
        loc.stats.wins + loc.stats.losses = loc.stats.trades

(* a trade held to resolution: the position is dropped 15 s before the     *)
(* market ends with neither wins nor losses incremented                    *)
C39_TradeUnaccounted ==
    /\ ~loc.busy
    /\ loc.state = "IDLE"
    /\ ~loc.position.held
    /\ loc.stats.trades = 1
    /\ loc.stats.wins = 0
    /\ loc.stats.losses = 0


(* C40: the queue of log entries awaiting telemetry delivery stays bounded *)
(* over an unbounded run, also when the telemetry backend is never         *)
(* connected: it never holds more than the log buffer's own cap.           *)
C40_QueueBounded == loc.logQueue <= MAX_LOGS

(* no backend: the dashboard buffer is at its cap of 200 and the queue has *)
(* grown past it                                                           *)
C40_QueueOutgrowsLogs ==
    /\ ~loc.connected
    /\ loc.logs = MAX_LOGS
    /\ loc.logQueue > MAX_LOGS

====
